---- MODULE Spec2Model ----
(***************************************************************************)
(* drcov: codec for DrCov coverage files (src/src/lib.rs).                 *)
(*                                                                         *)
(* Byte streams (the Vec<u8> sink of to_writer, the reader of from_reader) *)
(* are sequences of integers 0..255.  Text (Rust String / &str) is kept as *)
(* its UTF-8 bytes; the modelled alphabet is 7-bit ASCII plus bytes >=128, *)
(* every one of which is treated as an invalid UTF-8 sequence (multi-byte  *)
(* characters are outside the alphabet).                                   *)
(*                                                                         *)
(* u64 values are four 16-bit limbs <<l0, l1, l2, l3>>, least significant  *)
(* first; u32 values that are formatted in hexadecimal or little-endian    *)
(* (start, checksum, timestamp) are two limbs.  Decimal u32/usize values   *)
(* (ids, counts, versions) are integers; the decimal parser is exact for   *)
(* tokens of at most nine significant digits (longer ones count as          *)
(* overflow, which is exact for every token of ten or more digits above    *)
(* the type's maximum; no input of the model has such a token below it).   *)
(***************************************************************************)
EXTENDS Integers, Sequences, FiniteSets, TLC

(***************************************************************************)
(* Bounds of the model                                                     *)
(***************************************************************************)
MaxModules == 3
MaxBlocks == 2
MaxFeeds == 7

(***************************************************************************)
(* Characters and bytes                                                    *)
(***************************************************************************)
\* the printable ASCII characters 32..95 and 97..126 (a string literal cannot
\* hold the backquote, byte 96, which no text of the program uses)
AsciiLow == " !\"#$%&'()*+,-./0123456789:;<=>?@ABCDEFGHIJKLMNOPQRSTUVWXYZ[\\]^_"
AsciiHigh == "abcdefghijklmnopqrstuvwxyz{|}~"

CharAt(s, i) == SubSeq(s, i, i)

\* the byte of a one-character string
OrdOf(c) ==
  IF c = "\n" THEN 10
  ELSE IF c = "\t" THEN 9
  ELSE IF c = "\r" THEN 13
  ELSE IF \E i \in 1..Len(AsciiLow) : CharAt(AsciiLow, i) = c
  THEN 31 + (CHOOSE i \in 1..Len(AsciiLow) : CharAt(AsciiLow, i) = c)
  ELSE 96 + (CHOOSE i \in 1..Len(AsciiHigh) : CharAt(AsciiHigh, i) = c)

Chars ==
  {"\n", "\t", "\r"} \cup {CharAt(AsciiLow, i) : i \in 1..Len(AsciiLow)}
                      \cup {CharAt(AsciiHigh, i) : i \in 1..Len(AsciiHigh)}

OrdTable == [c \in Chars |-> OrdOf(c)]

Ord(c) == OrdTable[c]

\* str::as_bytes of a literal
Bytes(s) == [i \in 1..Len(s) |-> Ord(CharAt(s, i))]

NL == Ord("\n")
COMMA == Ord(",")
PLUS == Ord("+")
MINUS == Ord("-")
DIGIT_0 == Ord("0")
DIGIT_9 == Ord("9")
LOWER_A == Ord("a")
LOWER_F == Ord("f")
UPPER_A == Ord("A")
UPPER_F == Ord("F")
HEX_PREFIX == Bytes("0x")
LIST_SEP == Bytes(", ")
SPACE == Bytes(" ")
ZERO_TEXT == Bytes("0")
MINUS_ONE_TEXT == Bytes("-1")
VERSION_WORD == Bytes("version ")
COUNT_WORD == Bytes("count ")
COUNT_SEP == Bytes(", count ")
BBS_SUFFIX == Bytes(" bbs")

\* the names of the module-table columns
KEY_ID == Bytes("id")
KEY_BASE == Bytes("base")
KEY_START == Bytes("start")
KEY_END == Bytes("end")
KEY_ENTRY == Bytes("entry")
KEY_PATH == Bytes("path")
KEY_CONTAINING_ID == Bytes("containing_id")
KEY_OFFSET == Bytes("offset")
KEY_CHECKSUM == Bytes("checksum")
KEY_TIMESTAMP == Bytes("timestamp")

\* the Columns texts of to_writer
COLUMNS_LEGACY == Bytes("id, base, end, entry, path")
COLUMNS_V2 == Bytes("id, base, end, entry, path")
COLUMNS_V2_WIN == Bytes("id, base, end, entry, checksum, timestamp, path")
COLUMNS_V3 == Bytes("id, containing_id, start, end, entry, path")
COLUMNS_V3_WIN == Bytes("id, containing_id, start, end, entry, checksum, timestamp, path")
COLUMNS_V4 == Bytes("id, containing_id, start, end, entry, offset, path")
COLUMNS_V4_WIN == Bytes("id, containing_id, start, end, entry, offset, checksum, timestamp, path")

Min(S) == CHOOSE x \in S : \A y \in S : x <= y
Max(S) == CHOOSE x \in S : \A y \in S : x >= y

None == [some |-> FALSE]
Some(v) == [some |-> TRUE, v |-> v]

(***************************************************************************)
(* Constants used throughout the library (mod consts)                      *)
(***************************************************************************)
SUPPORTED_FILE_VERSION == 2
BB_ENTRY_SIZE == 8
VERSION_PREFIX == Bytes("DRCOV VERSION: ")
FLAVOR_PREFIX == Bytes("DRCOV FLAVOR: ")
MODULE_TABLE_PREFIX == Bytes("Module Table: ")
BB_TABLE_PREFIX == Bytes("BB Table: ")
COLUMNS_PREFIX == Bytes("Columns: ")

(***************************************************************************)
(* str helpers of the Rust standard library, as the code uses them         *)
(***************************************************************************)
\* char::is_whitespace on ASCII: U+0009..U+000D and U+0020
IsWs(b) == b \in {9, 10, 11, 12, 13, 32}

\* str::trim
Trim(s) ==
  LET keep == {i \in 1..Len(s) : ~IsWs(s[i])}
  IN  IF keep = {} THEN <<>> ELSE SubSeq(s, Min(keep), Max(keep))

StartsWith(s, p) == Len(s) >= Len(p) /\ SubSeq(s, 1, Len(p)) = p

\* str::strip_prefix
StripPrefix(s, p) ==
  IF StartsWith(s, p) THEN Some(SubSeq(s, Len(p) + 1, Len(s))) ELSE None

\* line.strip_suffix('\n').unwrap_or(line)
StripNewline(s) ==
  IF Len(s) > 0 /\ s[Len(s)] = NL THEN SubSeq(s, 1, Len(s) - 1) ELSE s

\* str::trim_start_matches(p): removes every leading repetition of p
RECURSIVE TrimStartMatches(_, _)
TrimStartMatches(s, p) ==
  IF Len(p) > 0 /\ StartsWith(s, p)
  THEN TrimStartMatches(SubSeq(s, Len(p) + 1, Len(s)), p)
  ELSE s

\* positions of the separator byte in s
SepPositions(s, sep) == {i \in 1..Len(s) : s[i] = sep}

\* str::splitn(n, sep): at most n pieces, the last one holding the remainder
RECURSIVE SplitN(_, _, _)
SplitN(s, n, sep) ==
  IF n = 0 THEN <<>>
  ELSE IF n = 1 \/ SepPositions(s, sep) = {} THEN <<s>>
  ELSE LET k == Min(SepPositions(s, sep))
       IN  <<SubSeq(s, 1, k - 1)>> \o SplitN(SubSeq(s, k + 1, Len(s)), n - 1, sep)

\* str::split(sep): every piece
Split(s, sep) == SplitN(s, Len(s) + 1, sep)

RECURSIVE Join(_, _)
\* [String]::join(sep)
Join(parts, sep) ==
  IF Len(parts) = 0 THEN <<>>
  ELSE IF Len(parts) = 1 THEN parts[1]
  ELSE parts[1] \o sep \o Join(Tail(parts), sep)

(***************************************************************************)
(* Numbers: decimal and hexadecimal text                                   *)
(***************************************************************************)
IsDecDigit(b) == b >= DIGIT_0 /\ b <= DIGIT_9

\* value of a hexadecimal digit (char::to_digit(16)), -1 when it is none
HexDigitVal(b) ==
  IF IsDecDigit(b) THEN b - DIGIT_0
  ELSE IF b >= LOWER_A /\ b <= LOWER_F THEN b - LOWER_A + 10
  ELSE IF b >= UPPER_A /\ b <= UPPER_F THEN b - UPPER_A + 10
  ELSE -1

RECURSIVE StripLeadingZeros(_)
StripLeadingZeros(ds) ==
  IF Len(ds) > 0 /\ ds[1] = DIGIT_0 THEN StripLeadingZeros(Tail(ds)) ELSE ds

RECURSIVE DecValue(_)
DecValue(ds) ==
  IF Len(ds) = 0 THEN 0
  ELSE DecValue(SubSeq(ds, 1, Len(ds) - 1)) * 10 + (ds[Len(ds)] - DIGIT_0)

\* <unsigned>::from_str: an optional '+', then one or more decimal digits
ParseUnsigned(s) ==
  LET ds == IF Len(s) > 0 /\ s[1] = PLUS THEN Tail(s) ELSE s
  IN  IF Len(ds) = 0 \/ \E i \in 1..Len(ds) : ~IsDecDigit(ds[i]) THEN None
      ELSE IF Len(StripLeadingZeros(ds)) > 9 THEN None
      ELSE Some(DecValue(StripLeadingZeros(ds)))

\* i32::from_str: an optional '+' or '-', then one or more decimal digits
ParseSigned(s) ==
  LET neg == Len(s) > 0 /\ s[1] = MINUS
      ds  == IF Len(s) > 0 /\ s[1] \in {PLUS, MINUS} THEN Tail(s) ELSE s
  IN  IF Len(ds) = 0 \/ \E i \in 1..Len(ds) : ~IsDecDigit(ds[i]) THEN None
      ELSE IF Len(StripLeadingZeros(ds)) > 9 THEN None
      ELSE Some(IF neg THEN 0 - DecValue(StripLeadingZeros(ds))
                       ELSE DecValue(StripLeadingZeros(ds)))

RECURSIVE FormatUnsigned(_)
\* Display of an unsigned integer
FormatUnsigned(n) ==
  IF n < 10 THEN <<DIGIT_0 + n>>
  ELSE FormatUnsigned(n \div 10) \o <<DIGIT_0 + (n % 10)>>

\* the digits of an i32 without its sign
FormatSignedMagnitude(n) == FormatUnsigned(IF n < 0 THEN 0 - n ELSE n)

\* Display of an i32
FormatSigned(n) ==
  IF n < 0 THEN <<MINUS>> \o FormatUnsigned(0 - n) ELSE FormatUnsigned(n)

\* one limb holds 16 bits
LimbBase == 256 * 256

\* an unsigned value of k limbs from a small natural number
Wide(n, k) == [i \in 1..k |-> IF i = 1 THEN n % LimbBase
                              ELSE IF i = 2 THEN n \div LimbBase ELSE 0]
U64(n) == Wide(n, 4)
U32(n) == Wide(n, 2)
ZERO64 == U64(0)
ZERO32 == U32(0)

HexChars == Bytes("0123456789abcdef")

\* the four lower-case hexadecimal digits of one limb
LimbHex(l) ==
  << HexChars[(l \div 4096) + 1], HexChars[((l \div 256) % 16) + 1],
     HexChars[((l \div 16) % 16) + 1], HexChars[(l % 16) + 1] >>

RECURSIVE HexDigits(_)
\* every hexadecimal digit of a value, most significant first ({:0Nx})
HexDigits(v) ==
  IF Len(v) = 0 THEN <<>>
  ELSE LimbHex(v[Len(v)]) \o HexDigits(SubSeq(v, 1, Len(v) - 1))

\* format!("0x{:016x}", v) for a u64, format!("0x{:08x}", v) for a u32
FormatHexPadded(v) == HEX_PREFIX \o HexDigits(v)

\* format!("0x{:x}", v)
FormatHex(v) ==
  LET ds == StripLeadingZeros(HexDigits(v))
  IN  HEX_PREFIX \o (IF Len(ds) = 0 THEN ZERO_TEXT ELSE ds)

\* the limb made of four hexadecimal digits
LimbOf(ds) ==
  HexDigitVal(ds[1]) * 4096 + HexDigitVal(ds[2]) * 256
    + HexDigitVal(ds[3]) * 16 + HexDigitVal(ds[4])

\* <unsigned>::from_str_radix(s, 16) for a type of k limbs: an optional '+',
\* then one or more hexadecimal digits; None on a bad digit or on overflow
ParseHex(s, k) ==
  LET ds  == IF Len(s) > 0 /\ s[1] = PLUS THEN Tail(s) ELSE s
      sig == StripLeadingZeros(ds)
      pad == [i \in 1..(4 * k - Len(sig)) |-> DIGIT_0] \o sig
  IN  IF Len(ds) = 0 \/ \E i \in 1..Len(ds) : HexDigitVal(ds[i]) < 0 THEN None
      ELSE IF Len(sig) > 4 * k THEN None
      ELSE Some([i \in 1..k |-> LimbOf(SubSeq(pad, 4 * (k - i) + 1, 4 * (k - i) + 4))])

(***************************************************************************)
(* Results and errors (enum Error)                                         *)
(***************************************************************************)
Ok(v) == [ok |-> TRUE, v |-> v]
Err(kind, msg, info) == [ok |-> FALSE, kind |-> kind, msg |-> msg, info |-> info]

(***************************************************************************)
(* Data model                                                              *)
(***************************************************************************)
\* enum ModuleTableVersion, ordered by its discriminant
Legacy == 1
V2 == 2
V3 == 3
V4 == 4

\* FileHeader::default()
DefaultHeader == [version |-> SUPPORTED_FILE_VERSION, flavor |-> Bytes("drcov")]

\* ModuleEntry::default()
DefaultModule ==
  [id |-> 0, base |-> ZERO64, end |-> ZERO64, entry |-> ZERO64, path |-> <<>>,
   containing_id |-> None, offset |-> None, checksum |-> None, timestamp |-> None]

\* CoverageData::default()
DefaultCoverage ==
  [header |-> DefaultHeader, module_version |-> Legacy,
   modules |-> <<>>, basic_blocks |-> <<>>]

\* the check of validate with the reference check left out
validate_ids_only(d) ==
  LET bad == {i \in 1..Len(d.modules) : d.modules[i].id # i - 1}
  IN  IF bad # {}
      THEN Err("ValidationError", "Non-sequential module ID",
               <<d.modules[Min(bad)].id, Min(bad) - 1>>)
      ELSE Ok(<<>>)

\* CoverageData::validate: the first violation found, modules before blocks
validate(d) ==
  LET bad  == {i \in 1..Len(d.modules) : d.modules[i].id # i - 1}
      badb == {j \in 1..Len(d.basic_blocks) :
                 d.basic_blocks[j].module_id >= Len(d.modules)}
  IN  IF bad # {}
      THEN Err("ValidationError", "Non-sequential module ID",
               <<d.modules[Min(bad)].id, Min(bad) - 1>>)
      ELSE IF badb # {}
      THEN Err("ValidationError", "Basic block references invalid module ID",
               <<d.basic_blocks[Min(badb)].module_id>>)
      ELSE Ok(<<>>)

(***************************************************************************)
(* Queries                                                                 *)
(***************************************************************************)
\* the subtraction that wraps when end < base
size_wrapping(module) ==
  LET B   == LimbBase
      a   == module.end
      b   == module.base
      bw  == [i \in 0..4 |->
                IF i = 0 THEN 0
                ELSE IF \E k \in 1..i : a[k] < b[k] /\ \A h \in (k + 1)..i : a[h] = b[h]
                THEN 1 ELSE 0]
  IN  [i \in 1..4 |-> (a[i] - b[i] - bw[i - 1] + B) % B]

\* ModuleEntry::size: self.end.saturating_sub(self.base)
size(module) ==
  LET B   == LimbBase
      a   == module.end
      b   == module.base
      ne  == {i \in 1..4 : a[i] # b[i]}
      lt  == ne # {} /\ a[Max(ne)] < b[Max(ne)]
      bw  == [i \in 0..4 |->
                IF i = 0 THEN 0
                ELSE IF \E k \in 1..i : a[k] < b[k] /\ \A h \in (k + 1)..i : a[h] = b[h]
                THEN 1 ELSE 0]
  IN  IF lt THEN ZERO64
      ELSE [i \in 1..4 |-> (a[i] - b[i] - bw[i - 1] + B) % B]

\* ModuleEntry::contains_address: addr >= self.base && addr < self.end
contains_address(module, addr) ==
  LET Less(x, y) ==
        LET ne == {i \in 1..4 : x[i] # y[i]}
        IN  ne # {} /\ x[Max(ne)] < y[Max(ne)]
  IN  ~Less(addr, module.base) /\ Less(addr, module.end)

\* BasicBlock::absolute_address: module.base + self.start as u64.  The
\* operator + on u64 wraps in a build without overflow checks and panics in
\* a build with them; both outcomes are kept.
absolute_address(bb, module) ==
  LET B  == LimbBase
      a  == module.base
      b  == <<bb.start[1], bb.start[2], 0, 0>>
      c  == [i \in 0..4 |->
               IF i = 0 THEN 0
               ELSE IF \E k \in 1..i :
                         a[k] + b[k] >= B /\ \A h \in (k + 1)..i : a[h] + b[h] = B - 1
               THEN 1 ELSE 0]
      wrapped == [panic |-> FALSE, v |-> [i \in 1..4 |-> (a[i] + b[i] + c[i - 1]) % B]]
  IN  IF c[4] = 1 THEN {wrapped, [panic |-> TRUE, v |-> ZERO64]} ELSE {wrapped}

\* modules.get(id) without the filter on the stored id
find_module_unfiltered(d, id) ==
  IF id < Len(d.modules) THEN Some(d.modules[id + 1]) ELSE None

\* CoverageData::find_module: modules.get(id).filter(|m| m.id == id)
find_module(d, id) ==
  IF id < Len(d.modules) /\ d.modules[id + 1].id = id
  THEN Some(d.modules[id + 1]) ELSE None

\* the last module that contains the address
find_last_module_by_address(d, addr) ==
  LET hit == {i \in 1..Len(d.modules) : contains_address(d.modules[i], addr)}
  IN  IF hit = {} THEN None ELSE Some(d.modules[Max(hit)])

\* CoverageData::find_module_by_address: modules.iter().find(contains_address)
find_module_by_address(d, addr) ==
  LET hit == {i \in 1..Len(d.modules) : contains_address(d.modules[i], addr)}
  IN  IF hit = {} THEN None ELSE Some(d.modules[Min(hit)])

\* a statistics map with an entry for every module of the table
get_coverage_stats_per_module(d) ==
  [id \in {d.modules[i].id : i \in 1..Len(d.modules)}
          \cup {d.basic_blocks[j].module_id : j \in 1..Len(d.basic_blocks)} |->
     Cardinality({j \in 1..Len(d.basic_blocks) : d.basic_blocks[j].module_id = id})]

\* CoverageData::get_coverage_stats: *stats.entry(bb.module_id).or_insert(0) += 1
get_coverage_stats(d) ==
  [id \in {d.basic_blocks[j].module_id : j \in 1..Len(d.basic_blocks)} |->
     Cardinality({j \in 1..Len(d.basic_blocks) : d.basic_blocks[j].module_id = id})]

(***************************************************************************)
(* Encoder                                                                 *)
(***************************************************************************)
\* writeln!: the text and a line feed
Line(text) == text \o <<NL>>

IsSome(o) == o.some
UnwrapOr(o, d) == IF o.some THEN o.v ELSE d

\* write_module_line: has_windows_fields is computed from this module alone
write_module_line(module, version) ==
  LET has_windows_fields == module.checksum.some \/ module.timestamp.some
      use_windows_cols == IF version \in {V2, V3, V4} THEN has_windows_fields ELSE FALSE
  IN  Line(Join(
        <<FormatUnsigned(module.id)>>
        \o (IF version >= V3
            THEN <<IF module.containing_id.some
                   THEN FormatSigned(module.containing_id.v) ELSE MINUS_ONE_TEXT>>
            ELSE <<>>)
        \o <<FormatHexPadded(module.base), FormatHexPadded(module.end),
             FormatHexPadded(module.entry)>>
        \o (IF version >= V4 THEN <<FormatHex(UnwrapOr(module.offset, ZERO64))>> ELSE <<>>)
        \o (IF use_windows_cols
            THEN <<FormatHexPadded(UnwrapOr(module.checksum, ZERO32)),
                   FormatHexPadded(UnwrapOr(module.timestamp, ZERO32))>>
            ELSE <<>>)
        \o <<module.path>>,
        LIST_SEP))

\* a Columns text that never names checksum and timestamp
ColumnsTextNoWindows(version, has_windows_fields) ==
  IF version = V2 THEN COLUMNS_V2
  ELSE IF version = V3 THEN COLUMNS_V3
  ELSE IF version = V4 THEN COLUMNS_V4
  ELSE COLUMNS_LEGACY

\* the Columns text to_writer selects
ColumnsText(version, has_windows_fields) ==
  IF version = V2
  THEN IF has_windows_fields THEN COLUMNS_V2_WIN ELSE COLUMNS_V2
  ELSE IF version = V3
  THEN IF has_windows_fields THEN COLUMNS_V3_WIN ELSE COLUMNS_V3
  ELSE IF version = V4
  THEN IF has_windows_fields THEN COLUMNS_V4_WIN ELSE COLUMNS_V4
  ELSE COLUMNS_LEGACY

\* the module-table header line, and the Columns line of a versioned table
ModuleTableHeader(data) ==
  IF data.module_version = Legacy
  THEN Line(MODULE_TABLE_PREFIX \o FormatUnsigned(Len(data.modules)))
  ELSE Line(MODULE_TABLE_PREFIX \o VERSION_WORD
            \o FormatUnsigned(data.module_version) \o COUNT_SEP
            \o FormatUnsigned(Len(data.modules)))
       \o Line(COLUMNS_PREFIX \o ColumnsText(data.module_version,
                 \E i \in 1..Len(data.modules) :
                    data.modules[i].checksum.some \/ data.modules[i].timestamp.some))

RECURSIVE ModuleLines(_, _)
ModuleLines(modules, version) ==
  IF Len(modules) = 0 THEN <<>>
  ELSE write_module_line(modules[1], version) \o ModuleLines(Tail(modules), version)

\* the two bytes of a u16, most significant first
Be16(n) == <<n \div 256, n % 256>>

\* u16::to_le_bytes
Le16(n) == <<n % 256, n \div 256>>

\* one 8-byte record: start (u32), size (u16), module_id (u16), little-endian
BlockBytes(bb) ==
  Le16(bb.start[1]) \o Le16(bb.start[2]) \o Le16(bb.size) \o Le16(bb.module_id)

RECURSIVE BinaryData(_)
BinaryData(blocks) ==
  IF Len(blocks) = 0 THEN <<>> ELSE BlockBytes(blocks[1]) \o BinaryData(Tail(blocks))

\* the header line of the block table: format "{} {} bbs" after the prefix
BbTableHeader(n) ==
  Line(BB_TABLE_PREFIX \o SPACE \o FormatUnsigned(n) \o BBS_SUFFIX)

\* everything to_writer writes once the aggregate is validated
FileBytes(data) ==
  Line(VERSION_PREFIX \o FormatUnsigned(data.header.version))
  \o Line(FLAVOR_PREFIX \o data.header.flavor)
  \o ModuleTableHeader(data)
  \o ModuleLines(data.modules, data.module_version)
  \o BbTableHeader(Len(data.basic_blocks))
  \o BinaryData(data.basic_blocks)

\* to_writer that validates only after the two header lines are out
to_writer_validate_late(data) ==
  IF validate(data).ok
  THEN [res |-> Ok(<<>>), out |-> FileBytes(data)]
  ELSE [res |-> validate(data),
        out |-> Line(VERSION_PREFIX \o FormatUnsigned(data.header.version))
                \o Line(FLAVOR_PREFIX \o data.header.flavor)]

\* to_writer: the result and the bytes handed to the sink
to_writer(data) ==
  IF validate(data).ok
  THEN [res |-> Ok(<<>>), out |-> FileBytes(data)]
  ELSE [res |-> validate(data), out |-> <<>>]

(***************************************************************************)
(* Decoder: the reader                                                     *)
(***************************************************************************)
\* BufRead::read_line from position pos: the bytes up to and including the
\* next line feed, or up to the end of a closed stream
NextLine(bytes, p) ==
  LET nl == {i \in p..Len(bytes) : bytes[i] = NL}
  IN  IF nl # {} THEN SubSeq(bytes, p, Min(nl)) ELSE SubSeq(bytes, p, Len(bytes))

\* a read_line call returns: a whole line is buffered, or the stream has ended
LineReady(bytes, p, eof) == eof \/ \E i \in p..Len(bytes) : bytes[i] = NL

\* String::from_utf8 succeeds (ASCII; every byte >= 128 counts as invalid)
Utf8(bytes) == \A i \in 1..Len(bytes) : bytes[i] < 128

IoInvalidData == Err("Io", "stream did not contain valid UTF-8", <<>>)
IoUnexpectedEof == Err("Io", "failed to fill whole buffer", <<>>)

(***************************************************************************)
(* Decoder: header lines                                                   *)
(***************************************************************************)
\* parse_header_line without the prefix requirement on a line that holds it later
parse_header_line_lenient(raw, prefix) ==
  IF ~Utf8(raw) THEN IoInvalidData
  ELSE IF Len(raw) = 0
  THEN Err("InvalidFormat", "Expected header line with prefix, but found EOF", prefix)
  ELSE IF StripPrefix(Trim(raw), prefix).some
  THEN Ok(Trim(StripPrefix(Trim(raw), prefix).v))
  ELSE Err("InvalidFormat", "Invalid header line format, expected prefix", prefix)

\* parse_header_line on the bytes read_line returned
parse_header_line(raw, prefix) ==
  IF ~Utf8(raw) THEN IoInvalidData
  ELSE IF Len(raw) = 0
  THEN Err("InvalidFormat", "Expected header line with prefix, but found EOF", prefix)
  ELSE IF StripPrefix(StripNewline(raw), prefix).some
  THEN Ok(StripPrefix(StripNewline(raw), prefix).v)
  ELSE Err("InvalidFormat", "Invalid header line format, expected prefix", prefix)

\* from_reader without the outer version gate
parse_version_no_gate(raw) ==
  LET h == parse_header_line(raw, VERSION_PREFIX)
  IN  IF ~h.ok THEN h
      ELSE IF ~ParseUnsigned(h.v).some
      THEN Err("InvalidFormat", "Malformed version number", <<>>)
      ELSE Ok(ParseUnsigned(h.v).v)

\* from_reader, the version line: parse::<u32>() and the gate
parse_version(raw) ==
  LET h == parse_header_line(raw, VERSION_PREFIX)
  IN  IF ~h.ok THEN h
      ELSE IF ~ParseUnsigned(h.v).some
      THEN Err("InvalidFormat", "Malformed version number", <<>>)
      ELSE IF ParseUnsigned(h.v).v # SUPPORTED_FILE_VERSION
      THEN Err("UnsupportedVersion", "", <<ParseUnsigned(h.v).v>>)
      ELSE Ok(ParseUnsigned(h.v).v)

(***************************************************************************)
(* Decoder: module table                                                   *)
(***************************************************************************)
MapTrim(parts) == [i \in 1..Len(parts) |-> Trim(parts[i])]

\* the implicit layout of a legacy table
LegacyColumns ==
  <<KEY_ID, KEY_BASE, KEY_END, KEY_ENTRY, KEY_PATH>>

\* parse_module_table, the header line: (version, count)
parse_module_table_header(raw) ==
  IF ~Utf8(raw) THEN IoInvalidData
  ELSE
  LET content == StripPrefix(Trim(raw), MODULE_TABLE_PREFIX)
  IN  IF ~content.some
      THEN Err("InvalidModuleTable", "Missing or malformed header", <<>>)
      ELSE IF StripPrefix(content.v, VERSION_WORD).some
      THEN LET parts == Split(StripPrefix(content.v, VERSION_WORD).v, COMMA)
           IN  IF Len(parts) # 2
               THEN Err("InvalidModuleTable", "Invalid versioned header format", <<>>)
               ELSE
               LET ver_num   == ParseUnsigned(Trim(parts[1]))
                   count_str == StripPrefix(Trim(parts[2]), COUNT_WORD)
               IN  IF ~ver_num.some
                   THEN Err("InvalidModuleTable", "Invalid version number", <<>>)
                   ELSE IF ~count_str.some
                   THEN Err("InvalidModuleTable", "Missing count", <<>>)
                   ELSE IF ~ParseUnsigned(count_str.v).some
                   THEN Err("InvalidModuleTable", "Invalid count value", <<>>)
                   ELSE IF ver_num.v \notin {2, 3, 4}
                   THEN Err("InvalidModuleTable", "Unsupported module table version",
                            <<ver_num.v>>)
                   ELSE Ok([version |-> ver_num.v, count |-> ParseUnsigned(count_str.v).v])
      ELSE IF ~ParseUnsigned(content.v).some
      THEN Err("InvalidModuleTable", "Invalid legacy count", <<>>)
      ELSE Ok([version |-> Legacy, count |-> ParseUnsigned(content.v).v])

\* a Columns stage that takes a line without the prefix as the column list
parse_columns_lenient(raw) ==
  IF ~Utf8(raw) THEN IoInvalidData
  ELSE Ok(MapTrim(Split(UnwrapOr(StripPrefix(Trim(raw), COLUMNS_PREFIX), Trim(raw)), COMMA)))

\* parse_module_table, the Columns line: the trimmed names
parse_columns(raw) ==
  IF ~Utf8(raw) THEN IoInvalidData
  ELSE IF ~StripPrefix(Trim(raw), COLUMNS_PREFIX).some
  THEN Err("InvalidModuleTable", "Missing columns header", <<>>)
  ELSE Ok(MapTrim(Split(StripPrefix(Trim(raw), COLUMNS_PREFIX).v, COMMA)))

\* the split of a record that cuts at every comma
RecordValuesUnbounded(line, columns) == MapTrim(Split(line, COMMA))

\* the values of a record: splitn stops after the declared column count
RecordValues(line, columns) == MapTrim(SplitN(line, Len(columns), COMMA))

\* positional binding: a field is the value in its canonical position
FieldByPosition(columns, values, key) ==
  LET canon == <<KEY_ID, KEY_BASE, KEY_END, KEY_ENTRY, KEY_PATH>>
      at    == {i \in 1..Len(canon) : canon[i] = key /\ i <= Len(values)}
  IN  IF at = {} THEN None ELSE Some(values[Min(at)])

\* map.get(key) of the HashMap collected from columns.zip(values): the value
\* of the last column that carries the name
Field(columns, values, key) ==
  LET at == {i \in 1..Len(columns) : columns[i] = key}
  IN  IF at = {} THEN None ELSE Some(values[Max(at)])

\* a hexadecimal field that takes a zero for no value
AndThenHexNonZero(o, k) ==
  IF o.some /\ ParseHex(TrimStartMatches(o.v, HEX_PREFIX), k) # Some(Wide(0, k))
  THEN ParseHex(TrimStartMatches(o.v, HEX_PREFIX), k) ELSE None

\* Option::and_then over a parser
AndThenHex(o, k) == IF o.some THEN ParseHex(TrimStartMatches(o.v, HEX_PREFIX), k) ELSE None

\* a record parser that gives every optional field a default value
parse_module_entry_defaults(line, columns) ==
  LET values == RecordValues(line, columns)
      get(key) == Field(columns, values, key)
      id == IF get(KEY_ID).some THEN ParseUnsigned(get(KEY_ID).v) ELSE None
      base == AndThenHex(get(KEY_BASE), 4)
      start == AndThenHex(get(KEY_START), 4)
      containing_id == get(KEY_CONTAINING_ID)
  IN  IF Len(values) # Len(columns)
      THEN Err("InvalidModuleTable", "Column count mismatch in line", line)
      ELSE IF ~id.some
      THEN Err("InvalidModuleTable", "Missing or invalid 'id'", <<>>)
      ELSE Ok([id |-> id.v,
               base |-> IF base.some THEN base.v ELSE UnwrapOr(start, ZERO64),
               end |-> UnwrapOr(AndThenHex(get(KEY_END), 4), ZERO64),
               entry |-> UnwrapOr(AndThenHex(get(KEY_ENTRY), 4), ZERO64),
               path |-> UnwrapOr(get(KEY_PATH), <<>>),
               containing_id |-> IF containing_id.some
                                 THEN ParseSigned(containing_id.v) ELSE Some(-1),
               offset |-> Some(UnwrapOr(AndThenHex(get(KEY_OFFSET), 4), ZERO64)),
               checksum |-> Some(UnwrapOr(AndThenHex(get(KEY_CHECKSUM), 2), ZERO32)),
               timestamp |-> Some(UnwrapOr(AndThenHex(get(KEY_TIMESTAMP), 2), ZERO32))])

\* parse_module_entry on a trimmed record line
parse_module_entry(line, columns) ==
  LET values == RecordValues(line, columns)
      get(key) == Field(columns, values, key)
      id == IF get(KEY_ID).some THEN ParseUnsigned(get(KEY_ID).v) ELSE None
      base == AndThenHex(get(KEY_BASE), 4)
      start == AndThenHex(get(KEY_START), 4)
      containing_id == get(KEY_CONTAINING_ID)
  IN  IF Len(values) # Len(columns)
      THEN Err("InvalidModuleTable", "Column count mismatch in line", line)
      ELSE IF ~id.some
      THEN Err("InvalidModuleTable", "Missing or invalid 'id'", <<>>)
      ELSE Ok([id |-> id.v,
               base |-> IF base.some THEN base.v ELSE UnwrapOr(start, ZERO64),
               end |-> UnwrapOr(AndThenHex(get(KEY_END), 4), ZERO64),
               entry |-> UnwrapOr(AndThenHex(get(KEY_ENTRY), 4), ZERO64),
               path |-> UnwrapOr(get(KEY_PATH), <<>>),
               containing_id |-> IF containing_id.some
                                 THEN ParseSigned(containing_id.v) ELSE None,
               offset |-> AndThenHex(get(KEY_OFFSET), 4),
               checksum |-> AndThenHex(get(KEY_CHECKSUM), 2),
               timestamp |-> AndThenHex(get(KEY_TIMESTAMP), 2)])

\* a record loop that leaves the id check to the final validation
parse_module_record_unchecked(raw, columns, i) ==
  IF ~Utf8(raw) THEN IoInvalidData
  ELSE parse_module_entry(Trim(raw), columns)

\* parse_module_table, one turn of the record loop at index i (from 0)
parse_module_record(raw, columns, i) ==
  IF ~Utf8(raw) THEN IoInvalidData
  ELSE LET m == parse_module_entry(Trim(raw), columns)
       IN  IF ~m.ok THEN m
           ELSE IF m.v.id # i
           THEN Err("InvalidModuleTable", "Non-sequential module ID", <<i, m.v.id>>)
           ELSE m

(***************************************************************************)
(* Decoder: basic-block table                                              *)
(***************************************************************************)
\* content.split_whitespace().next().unwrap_or("0")
FirstToken(s) ==
  LET t   == Trim(s)
      wsp == {i \in 1..Len(t) : IsWs(t[i])}
  IN  IF Len(t) = 0 THEN ZERO_TEXT
      ELSE IF wsp = {} THEN t ELSE SubSeq(t, 1, Min(wsp) - 1)

\* a header parser that insists on a BB Table line
parse_bb_header_required(raw) ==
  IF ~Utf8(raw) THEN IoInvalidData
  ELSE IF ~StripPrefix(Trim(raw), BB_TABLE_PREFIX).some
  THEN Err("InvalidBbTable", "Missing or malformed header", <<>>)
  ELSE IF ~ParseUnsigned(FirstToken(StripPrefix(Trim(raw), BB_TABLE_PREFIX).v)).some
  THEN Err("InvalidBbTable", "Invalid block count", <<>>)
  ELSE Ok(ParseUnsigned(FirstToken(StripPrefix(Trim(raw), BB_TABLE_PREFIX).v)).v)

\* parse_bb_table, the header line: the declared block count
parse_bb_header(raw) ==
  IF ~Utf8(raw) THEN IoInvalidData
  ELSE IF Len(raw) = 0 THEN Ok(0)
  ELSE IF ~StripPrefix(Trim(raw), BB_TABLE_PREFIX).some
  THEN Err("InvalidBbTable", "Missing or malformed header", <<>>)
  ELSE IF ~ParseUnsigned(FirstToken(StripPrefix(Trim(raw), BB_TABLE_PREFIX).v)).some
  THEN Err("InvalidBbTable", "Invalid block count", <<>>)
  ELSE Ok(ParseUnsigned(FirstToken(StripPrefix(Trim(raw), BB_TABLE_PREFIX).v)).v)

\* u16::from_le_bytes
FromLe16(b) == b[1] + 256 * b[2]

\* one chunk of chunks_exact(BB_ENTRY_SIZE)
BlockOf(chunk) ==
  [start |-> <<FromLe16(SubSeq(chunk, 1, 2)), FromLe16(SubSeq(chunk, 3, 4))>>,
   size |-> FromLe16(SubSeq(chunk, 5, 6)),
   module_id |-> FromLe16(SubSeq(chunk, 7, 8))]

\* the blocks of count * BB_ENTRY_SIZE bytes
BlocksOf(binary_data) ==
  [k \in 1..(Len(binary_data) \div BB_ENTRY_SIZE) |->
     BlockOf(SubSeq(binary_data, BB_ENTRY_SIZE * (k - 1) + 1, BB_ENTRY_SIZE * k))]

(***************************************************************************)
(* State                                                                   *)
(***************************************************************************)
VARIABLES
  data,      \* CoverageBuilder.data: the aggregate under construction
  built,     \* what build() returned, NotYet before the call
  sink,      \* the bytes to_writer has handed to its writer
  wres,      \* what to_writer returned, NotYet before the call
  answer,    \* what the last query on the aggregate returned
  input,     \* the bytes the reader of from_reader has been given so far
  closed,    \* the reader's source has ended: no byte follows input
  feeds,     \* chunks the source has delivered
  pos,       \* from_reader: next unread position of input (from 1)
  dpc,       \* from_reader: the stage about to run
  stage,     \* from_reader: the stage that ran last
  line,      \* from_reader: the line buffer, as the last read_line left it
  header,    \* from_reader: FileHeader read so far
  table,     \* from_reader: module_version, count and columns of the table
  modules,   \* from_reader: the module records pushed so far
  bbcount,   \* from_reader: the count the BB Table line declared
  blocks,    \* from_reader: the decoded basic blocks
  dres       \* what from_reader returned, NotYet before it returns

bvars == <<data, built, sink, wres, answer>>
svars == <<input, closed, feeds>>
dvars == <<pos, dpc, stage, line, header, table, modules, bbcount, blocks, dres>>
vars == <<data, built, sink, wres, answer, input, closed, feeds,
          pos, dpc, stage, line, header, table, modules, bbcount, blocks, dres>>

NotYet == [ok |-> FALSE, kind |-> "NotYet", msg |-> "", info |-> <<>>]

(***************************************************************************)
(* Arguments the callers pass                                              *)
(***************************************************************************)
Flavors == {Bytes(" t x ")}
Versions == {Legacy, V2, V3, V4}

\* add_module(path, base, end)
ModuleArgs == {[path |-> Bytes("/bin/test"), base |-> U64(4194304), end |-> U64(5242880)]}

\* add_full_module(ModuleEntry {..})
FullModules ==
  { [id |-> 1, base |-> U64(4198400), end |-> U64(4198400), entry |-> U64(4198401),
     path |-> Bytes("/lib/a,b c"), containing_id |-> Some(0), offset |-> Some(U64(4096)),
     checksum |-> Some(U32(305419896)), timestamp |-> Some(<<17185, 34661>>)],
    [id |-> 0, base |-> <<65535, 65535, 65535, 65535>>, end |-> U64(16), entry |-> ZERO64,
     path |-> Bytes("a.so"), containing_id |-> None, offset |-> None,
     checksum |-> Some(ZERO32), timestamp |-> None],
    [id |-> 3, base |-> ZERO64, end |-> ZERO64, entry |-> ZERO64,
     path |-> <<>>, containing_id |-> Some(-1), offset |-> Some(ZERO64),
     checksum |-> None, timestamp |-> None] }

\* add_coverage(module_id, offset, size)
CoverageArgs == {[module_id |-> 0, offset |-> U32(4096), size |-> 32]}

\* add_basic_block(BasicBlock {..})
BlockArgs == {[start |-> <<65535, 65535>>, size |-> 65535, module_id |-> 1]}

(***************************************************************************)
(* Builder (CoverageBuilder)                                               *)
(***************************************************************************)
\* the aggregate is still under construction: not built, not written, and
\* not yet lent to a query
Building == built = NotYet /\ wres = NotYet /\ answer.op = "none"

\* CoverageBuilder::flavor
Flavor(f) ==
  /\ Building
  /\ data' = [data EXCEPT !.header.flavor = f]
  /\ UNCHANGED <<built, sink, wres, answer, svars, dvars>>

\* CoverageBuilder::module_version
ModuleVersion(v) ==
  /\ Building
  /\ data' = [data EXCEPT !.module_version = v]
  /\ UNCHANGED <<built, sink, wres, answer, svars, dvars>>

\* a module that is always given the id 0
NewModuleFirstId(d, a) ==
  [DefaultModule EXCEPT !.path = a.path, !.base = a.base, !.end = a.end]

\* the module add_module pushes
NewModule(d, a) ==
  [DefaultModule EXCEPT !.id = Len(d.modules), !.path = a.path,
                        !.base = a.base, !.end = a.end]

\* CoverageBuilder::add_module
AddModule(a) ==
  /\ Building
  /\ Len(data.modules) < MaxModules
  /\ data' = [data EXCEPT !.modules = Append(@, NewModule(data, a))]
  /\ UNCHANGED <<built, sink, wres, answer, svars, dvars>>

\* CoverageBuilder::add_full_module
AddFullModule(m) ==
  /\ Building
  /\ Len(data.modules) < MaxModules
  /\ data' = [data EXCEPT !.modules = Append(@, m)]
  /\ UNCHANGED <<built, sink, wres, answer, svars, dvars>>

\* CoverageBuilder::add_coverage
AddCoverage(a) ==
  /\ Building
  /\ Len(data.basic_blocks) < MaxBlocks
  /\ data' = [data EXCEPT !.basic_blocks =
                Append(@, [start |-> a.offset, size |-> a.size, module_id |-> a.module_id])]
  /\ UNCHANGED <<built, sink, wres, answer, svars, dvars>>

\* CoverageBuilder::add_basic_block
AddBasicBlock(b) ==
  /\ Building
  /\ Len(data.basic_blocks) < MaxBlocks
  /\ data' = [data EXCEPT !.basic_blocks = Append(@, b)]
  /\ UNCHANGED <<built, sink, wres, answer, svars, dvars>>

\* build() that hands the aggregate over unchecked
build_unchecked(d) == Ok(d)

\* CoverageBuilder::build: validate, then the aggregate itself
build(d) == IF validate(d).ok THEN Ok(d) ELSE validate(d)

Build ==
  /\ Building
  /\ built' = build(data)
  /\ UNCHANGED <<data, sink, wres, answer, svars, dvars>>

(***************************************************************************)
(* to_writer.  The fields of CoverageData are public, so an aggregate in   *)
(* any state the builder holds can be assembled without build() (the tests *)
(* do); to_writer is applied to the aggregate as it stands.                *)
(***************************************************************************)
ToWriter ==
  /\ Building
  /\ dpc = "idle"
  /\ wres' = to_writer(data).res
  /\ sink' = sink \o to_writer(data).out
  /\ UNCHANGED <<data, built, answer, svars, dvars>>

(***************************************************************************)
(* Queries on the aggregate as it stands (its fields are public)           *)
(***************************************************************************)
Size(i) ==
  /\ Building
  /\ i \in 1..Len(data.modules)
  /\ answer' = [op |-> "size", module |-> i, result |-> size(data.modules[i])]
  /\ UNCHANGED <<data, built, sink, wres, svars, dvars>>

AbsoluteAddress(j, i) ==
  /\ Building
  /\ j \in 1..Len(data.basic_blocks)
  /\ i \in 1..Len(data.modules)
  /\ \E r \in absolute_address(data.basic_blocks[j], data.modules[i]) :
       answer' = [op |-> "absolute_address", block |-> j, module |-> i, result |-> r]
  /\ UNCHANGED <<data, built, sink, wres, svars, dvars>>

FindModule(id) ==
  /\ Building
  /\ answer' = [op |-> "find_module", id |-> id, result |-> find_module(data, id)]
  /\ UNCHANGED <<data, built, sink, wres, svars, dvars>>

FindModuleByAddress(addr) ==
  /\ Building
  /\ answer' = [op |-> "find_module_by_address", addr |-> addr,
                result |-> find_module_by_address(data, addr)]
  /\ UNCHANGED <<data, built, sink, wres, svars, dvars>>

GetCoverageStats ==
  /\ Building
  /\ answer' = [op |-> "get_coverage_stats", result |-> get_coverage_stats(data)]
  /\ UNCHANGED <<data, built, sink, wres, svars, dvars>>

(***************************************************************************)
(* The source of the reader.  A reader is forward-only: what it has not    *)
(* read yet may be any bytes, so the source delivers the stream chunk by   *)
(* chunk, whenever from_reader waits for more.                             *)
(***************************************************************************)
TextLines ==
  { Bytes("DRCOV VERSION: 2\n"), Bytes("DRCOV VERSION: 3\n"),
    Bytes("DRCOV VERSION: 10\n"), Bytes("DRCOV VERSION: invalid\n"),
    Bytes(" DRCOV VERSION: 2\n"), Bytes("WRONG VERSION: 2\n"),
    Bytes("DRCOV VERSION: 2 \n"),
    Bytes("DRCOV FLAVOR: test\n"), Bytes("DRCOV FLAVOR:  a b \n"),
    Bytes("  DRCOV FLAVOR: test\n"),
    Bytes("Module Table: 0\n"), Bytes("Module Table: 1\n"), Bytes("Module Table: 2\n"),
    Bytes("Module Table: version 2, count 1\n"),
    Bytes("Module Table: version 4, count 1\n"),
    Bytes("Module Table: version 5, count 1\n"),
    Bytes("Module Table: invalid\n"), Bytes("Module Table: version 2\n"),
    Bytes("Columns: id, base, end, entry, path\n"),
    Bytes("Columns: path, id, start, end, entry\n"),
    Bytes("Columns: id, containing_id, start, end, entry, offset, checksum, timestamp, path\n"),
    Bytes("Columns: id, path\n"),
    Bytes("Columns: id, path, path\n"),
    Bytes("0, 0x400000, 0x500000, 0x401000, /bin/test\n"),
    Bytes("1, 0x600000, 0x700000, 0x601000, /lib/a,b\n"),
    Bytes("0, 0x400000\n"),
    Bytes("abc, 0x400000, 0x500000, 0x401000, /bin/test\n"),
    Bytes("/bin/x, 0, 0x400000, 0x500000, 0x401000, extra\n"),
    Bytes("/bin/x, 0, 0x400000, 0x500000, 0x401000\n"),
    Bytes("0, -1, 0x400000, 0x500000, 0x401000, 0x0, 0x00000000, 0x12345678, /bin/t\n"),
    Bytes("0, /p\n"),
    Bytes("0, /a, /b\n"),
    Bytes("BB Table: 0 bbs\n"), Bytes("BB Table: 1 bbs\n"), Bytes("BB Table: 2 bbs\n"),
    Bytes("BB Table: invalid bbs\n"), Bytes("WRONG Table: 0 bbs\n"),
    <<255, NL>> }

\* pieces of a binary payload: two whole records and a truncated one
BinaryChunks ==
  { <<0, 16, 0, 0, 32, 0, 0, 0>>, <<10, 0, 0, 0, 1, 0, 1, 0>>, <<0, 16, 0>> }

\* what the source has delivered before from_reader starts: nothing, or the
\* start of a stream
Preloaded ==
  { <<>>,
    Bytes("DRCOV VERSION: 3\nDRCOV FLAVOR: test\nModule Table: 0\n"),
    Bytes("DRCOV VERSION: 10\nWRONG\n"),
    Bytes("DRCOV VERSION: x2\nDRCOV FLAVOR: test\n"),
    Bytes("DRCOV VERSION: 2\nDRCOV FLAVOR: pre\nModule Table: 1\n"),
    Bytes("DRCOV VERSION: 2\nDRCOV FLAVOR: dup\nModule Table: 3\n0, 0x1, 0x2, 0x0, /a\n0, 0x3, 0x4, 0x0, /b\n2, 0x5, 0x6, 0x0, /c\nBB Table: 0 bbs\n") }

ReadingLine == dpc \in {"version", "flavor", "module_table", "columns", "modules", "bb_table"}

\* from_reader is inside a read call that has not returned
Waiting ==
  /\ ~closed
  /\ \/ ReadingLine /\ ~LineReady(input, pos, closed)
     \/ dpc = "bb_data" /\ Len(input) - pos + 1 < bbcount * BB_ENTRY_SIZE

\* the chunks the source may deliver at this point of the parse: text while a
\* line is awaited, payload bytes (or text in their place) during read_exact
PayloadChunks == BinaryChunks \cup {Bytes("BB Table: 1 bbs\n")}

Offered == IF dpc = "bb_data" THEN PayloadChunks ELSE TextLines

\* the source delivers a chunk
Feed(c) ==
  /\ Waiting
  /\ feeds < MaxFeeds
  /\ input' = input \o c
  /\ feeds' = feeds + 1
  /\ UNCHANGED <<closed, bvars, dvars>>

\* the source delivers a last line that has no line feed, and ends
FeedUnterminated(c) ==
  /\ Waiting
  /\ feeds < MaxFeeds
  /\ c[Len(c)] = NL
  /\ input' = input \o SubSeq(c, 1, Len(c) - 1)
  /\ feeds' = feeds + 1
  /\ closed' = TRUE
  /\ UNCHANGED <<bvars, dvars>>

\* the source ends
Close ==
  /\ Waiting
  /\ closed' = TRUE
  /\ UNCHANGED <<input, feeds, bvars, dvars>>

\* from_reader(Cursor::new(buffer)) on the bytes to_writer produced
OpenSink ==
  /\ dpc = "idle"
  /\ wres.ok
  /\ input' = sink
  /\ closed' = TRUE
  /\ dpc' = "version"
  /\ UNCHANGED <<feeds, bvars, pos, stage, line, header, table, modules, bbcount, blocks, dres>>

(***************************************************************************)
(* from_reader, stage by stage                                             *)
(***************************************************************************)
\* an error that is recorded while the parse moves on to the block table
FailAndGoOn(e) ==
  /\ dpc' = "bb_table"
  /\ dres' = e

\* the ? operator: the error is what from_reader returns
Fail(e) ==
  /\ dpc' = "failed"
  /\ dres' = e

\* the version line and the outer version gate
ReadVersion ==
  /\ dpc = "version"
  /\ LineReady(input, pos, closed)
  /\ stage' = "version"
  /\ LET raw == NextLine(input, pos)
         r   == parse_version(raw)
     IN  /\ pos' = pos + Len(raw)
         /\ line' = raw
         /\ IF r.ok
            THEN /\ header' = [header EXCEPT !.version = r.v]
                 /\ dpc' = "flavor"
                 /\ UNCHANGED dres
            ELSE /\ Fail(r)
                 /\ UNCHANGED header
  /\ UNCHANGED <<bvars, svars, table, modules, bbcount, blocks>>

\* the flavor line
ReadFlavor ==
  /\ dpc = "flavor"
  /\ LineReady(input, pos, closed)
  /\ stage' = "flavor"
  /\ LET raw == NextLine(input, pos)
         r   == parse_header_line(raw, FLAVOR_PREFIX)
     IN  /\ pos' = pos + Len(raw)
         /\ line' = raw
         /\ IF r.ok
            THEN /\ header' = [header EXCEPT !.flavor = r.v]
                 /\ dpc' = "module_table"
                 /\ UNCHANGED dres
            ELSE /\ Fail(r)
                 /\ UNCHANGED header
  /\ UNCHANGED <<bvars, svars, table, modules, bbcount, blocks>>

\* parse_module_table: the header line; a legacy table has its columns at once
ReadModuleTableHeader ==
  /\ dpc = "module_table"
  /\ LineReady(input, pos, closed)
  /\ stage' = "module_table"
  /\ LET raw == NextLine(input, pos)
         r   == parse_module_table_header(raw)
     IN  /\ pos' = pos + Len(raw)
         /\ line' = raw
         /\ IF r.ok
            THEN /\ table' = [version |-> r.v.version, count |-> r.v.count,
                              columns |-> LegacyColumns]
                 /\ dpc' = IF r.v.version # Legacy THEN "columns"
                           ELSE IF r.v.count > 0 THEN "modules" ELSE "bb_table"
                 /\ UNCHANGED dres
            ELSE /\ Fail(r)
                 /\ UNCHANGED table
  /\ UNCHANGED <<bvars, svars, header, modules, bbcount, blocks>>

\* parse_module_table: the Columns line of a versioned table
ReadColumns ==
  /\ dpc = "columns"
  /\ LineReady(input, pos, closed)
  /\ stage' = "columns"
  /\ LET raw == NextLine(input, pos)
         r   == parse_columns(raw)
     IN  /\ pos' = pos + Len(raw)
         /\ line' = raw
         /\ IF r.ok
            THEN /\ table' = [table EXCEPT !.columns = r.v]
                 /\ dpc' = IF table.count > 0 THEN "modules" ELSE "bb_table"
                 /\ UNCHANGED dres
            ELSE /\ Fail(r)
                 /\ UNCHANGED table
  /\ UNCHANGED <<bvars, svars, header, modules, bbcount, blocks>>

\* parse_module_table: one turn of the loop over 0..count
ReadModuleRecord ==
  /\ dpc = "modules"
  /\ LineReady(input, pos, closed)
  /\ stage' = "modules"
  /\ LET raw == NextLine(input, pos)
         r   == parse_module_record(raw, table.columns, Len(modules))
     IN  /\ pos' = pos + Len(raw)
         /\ line' = raw
         /\ IF r.ok
            THEN /\ modules' = Append(modules, r.v)
                 /\ dpc' = IF Len(modules) + 1 < table.count THEN "modules" ELSE "bb_table"
                 /\ UNCHANGED dres
            ELSE /\ Fail(r)
                 /\ UNCHANGED modules
  /\ UNCHANGED <<bvars, svars, header, table, bbcount, blocks>>

\* parse_bb_table: the header line, absent at the end of the stream
ReadBbHeader ==
  /\ dpc = "bb_table"
  /\ LineReady(input, pos, closed)
  /\ stage' = "bb_table"
  /\ LET raw == NextLine(input, pos)
         r   == parse_bb_header(raw)
     IN  /\ pos' = pos + Len(raw)
         /\ line' = raw
         /\ IF r.ok
            THEN /\ bbcount' = r.v
                 /\ dpc' = IF r.v = 0 THEN "validate" ELSE "bb_data"
                 /\ UNCHANGED dres
            ELSE /\ Fail(r)
                 /\ UNCHANGED bbcount
  /\ UNCHANGED <<bvars, svars, header, table, modules, blocks>>

\* a read that returns the whole records it finds when the stream ends early
read_whole_records(bytes, p, need) ==
  LET have == Len(bytes) - p + 1
      n    == IF have >= need THEN need ELSE (have \div BB_ENTRY_SIZE) * BB_ENTRY_SIZE
  IN  Ok(SubSeq(bytes, p, p + n - 1))

\* Read::read_exact of need bytes from position p of an ended or sufficient stream
read_exact(bytes, p, need) ==
  IF Len(bytes) - p + 1 >= need
  THEN Ok(SubSeq(bytes, p, p + need - 1))
  ELSE IoUnexpectedEof

\* parse_bb_table: read_exact of count * BB_ENTRY_SIZE bytes, then the blocks
ReadBbData ==
  /\ dpc = "bb_data"
  /\ stage' = "bb_data"
  /\ Len(input) - pos + 1 >= bbcount * BB_ENTRY_SIZE \/ closed
  /\ LET r == read_exact(input, pos, bbcount * BB_ENTRY_SIZE)
     IN  IF r.ok
         THEN /\ blocks' = BlocksOf(r.v)
              /\ pos' = pos + Len(r.v)
              /\ dpc' = "validate"
              /\ UNCHANGED dres
         ELSE /\ Fail(r)
              /\ pos' = Len(input) + 1
              /\ UNCHANGED blocks
  /\ UNCHANGED <<bvars, svars, line, header, table, modules, bbcount>>

\* the aggregate from_reader assembles
Assembled ==
  [header |-> header, module_version |-> table.version,
   modules |-> modules, basic_blocks |-> blocks]

\* from_reader's last step with the validation left out
finish_unvalidated(d) == Ok(d)

\* from_reader's last step: data.validate()?; Ok(data)
finish(d) == IF validate(d).ok THEN Ok(d) ELSE validate(d)

Finish ==
  /\ dpc = "validate"
  /\ dres' = finish(Assembled)
  /\ dpc' = IF finish(Assembled).ok THEN "done" ELSE "failed"
  /\ stage' = "validate"
  /\ UNCHANGED <<bvars, svars, pos, line, header, table, modules, bbcount, blocks>>

\* from_reader on a whole stream (a Cursor over bytes): every stage in turn,
\* each read_line taking the next line, the first error returned
from_reader(bytes) ==
  LET at[k \in 1..5] ==
        IF k = 1 THEN 1 ELSE LET p == at[k - 1] IN p + Len(NextLine(bytes, p))
      v == parse_version(NextLine(bytes, at[1]))
      f == parse_header_line(NextLine(bytes, at[2]), FLAVOR_PREFIX)
      t == parse_module_table_header(NextLine(bytes, at[3]))
  IN  IF ~v.ok THEN v
      ELSE IF ~f.ok THEN f
      ELSE IF ~t.ok THEN t
      ELSE
      LET c  == IF t.v.version = Legacy THEN Ok(LegacyColumns)
                ELSE parse_columns(NextLine(bytes, at[4]))
          p0 == IF t.v.version = Legacy THEN at[4] ELSE at[5]
      IN  IF ~c.ok THEN c
          ELSE
          LET rp[i \in 1..(t.v.count + 1)] ==
                IF i = 1 THEN p0 ELSE LET p == rp[i - 1] IN p + Len(NextLine(bytes, p))
              rec(i) == parse_module_record(NextLine(bytes, rp[i]), c.v, i - 1)
              bad == {i \in 1..t.v.count : ~rec(i).ok}
              pb == IF bad = {} THEN rp[t.v.count + 1] ELSE 0
          IN  IF bad # {} THEN rec(Min(bad))
              ELSE
              LET h == parse_bb_header(NextLine(bytes, pb))
                  b == IF h.ok /\ h.v > 0
                       THEN read_exact(bytes, pb + Len(NextLine(bytes, pb)),
                                       h.v * BB_ENTRY_SIZE)
                       ELSE Ok(<<>>)
              IN  IF ~h.ok THEN h
                  ELSE IF ~b.ok THEN b
                  ELSE finish([header |-> [version |-> v.v, flavor |-> f.v],
                               module_version |-> t.v.version,
                               modules |-> [i \in 1..t.v.count |-> rec(i).v],
                               basic_blocks |-> BlocksOf(b.v)])

(***************************************************************************)
(* Specifications                                                          *)
(***************************************************************************)
DecoderAtRest ==
  /\ pos = 1
  /\ stage = "none"
  /\ line = <<>>
  /\ header = [version |-> 0, flavor |-> <<>>]
  /\ table = [version |-> Legacy, count |-> 0, columns |-> <<>>]
  /\ modules = <<>>
  /\ bbcount = 0
  /\ blocks = <<>>
  /\ dres = NotYet

BuilderAtRest ==
  /\ data = DefaultCoverage
  /\ built = NotYet
  /\ sink = <<>>
  /\ wres = NotYet
  /\ answer = [op |-> "none"]

\* CoverageData::builder(); no reader yet
Init ==
  /\ BuilderAtRest
  /\ DecoderAtRest
  /\ input = <<>>
  /\ closed = FALSE
  /\ feeds = 0
  /\ dpc = "idle"

Decode ==
  \/ ReadVersion
  \/ ReadFlavor
  \/ ReadModuleTableHeader
  \/ ReadColumns
  \/ ReadModuleRecord
  \/ ReadBbHeader
  \/ ReadBbData
  \/ Finish

\* build an aggregate, write it, read the written bytes back
Next ==
  \/ \E f \in Flavors : Flavor(f)
  \/ \E v \in Versions : ModuleVersion(v)
  \/ \E a \in ModuleArgs : AddModule(a)
  \/ \E m \in FullModules : AddFullModule(m)
  \/ \E a \in CoverageArgs : AddCoverage(a)
  \/ \E b \in BlockArgs : AddBasicBlock(b)
  \/ Build
  \/ ToWriter
  \/ OpenSink
  \/ Decode

Spec == Init /\ [][Next]_vars

\* from_reader(reader) on a stream the source delivers
InitDecode ==
  /\ BuilderAtRest
  /\ DecoderAtRest
  /\ input \in Preloaded
  /\ closed = FALSE
  /\ feeds = 0
  /\ dpc = "version"

NextDecode ==
  \/ \E c \in Offered : Feed(c)
  \/ \E c \in Offered : FeedUnterminated(c)
  \/ Close
  \/ Decode

SpecDecode == InitDecode /\ [][NextDecode]_vars

\* build an aggregate, then ask it one question
NextQuery ==
  \/ \E a \in ModuleArgs : AddModule(a)
  \/ \E m \in FullModules : AddFullModule(m)
  \/ \E a \in CoverageArgs : AddCoverage(a)
  \/ \E b \in BlockArgs : AddBasicBlock(b)
  \/ \E i \in 1..MaxModules : Size(i)
  \/ \E j \in 1..MaxBlocks, i \in 1..MaxModules : AbsoluteAddress(j, i)
  \/ \E id \in 0..MaxModules : FindModule(id)
  \/ \E addr \in {ZERO64, U64(8), U64(4194304), U64(4198400), U64(5242879),
                  U64(5242880), <<65535, 65535, 65535, 65535>>} :
       FindModuleByAddress(addr)
  \/ GetCoverageStats

SpecQuery == Init /\ [][NextQuery]_vars

(***************************************************************************)
(* Properties                                                              *)
(***************************************************************************)
\* module ids are 0, 1, 2, ... in order
IdsSequential(d) == \A i \in 1..Len(d.modules) : d.modules[i].id = i - 1

\* every block names an existing module
BlocksInRange(d) ==
  \A j \in 1..Len(d.basic_blocks) : d.basic_blocks[j].module_id < Len(d.modules)

Invariants(d) == IdsSequential(d) /\ BlocksInRange(d)

\* the fields of module m that a table tagged V can carry
Representable(m, V) ==
  [id |-> m.id, base |-> m.base, end |-> m.end, entry |-> m.entry, path |-> m.path,
   checksum |-> IF V >= V2 THEN m.checksum ELSE None,
   timestamp |-> IF V >= V2 THEN m.timestamp ELSE None,
   containing_id |-> IF V >= V3 THEN m.containing_id ELSE None,
   offset |-> IF V >= V4 THEN m.offset ELSE None]

SameRepresentable(x, y) ==
  /\ y.header = x.header
  /\ y.module_version = x.module_version
  /\ y.basic_blocks = x.basic_blocks
  /\ Len(y.modules) = Len(x.modules)
  /\ \A i \in 1..Len(x.modules) :
       Representable(y.modules[i], x.module_version)
         = Representable(x.modules[i], x.module_version)

Decoded == dpc \in {"done", "failed"}

\* C1: an aggregate that passes validate, written with to_writer and read back
\* with from_reader, decodes successfully to an aggregate with the same
\* header, table version, blocks, and module fields representable in that
\* version.
RoundTrip ==
  (Decoded /\ wres # NotYet /\ wres.ok) => (dres.ok /\ SameRepresentable(data, dres.v))

\* C2: validate succeeds exactly when module ids are sequential from 0 and
\* every block names an existing module; a failure is a ValidationError;
\* ranges, paths and optional fields play no part.
ValidateExactly ==
  /\ validate(data).ok <=> Invariants(data)
  /\ ~validate(data).ok => validate(data).kind = "ValidationError"
  /\ built # NotYet => (built.ok <=> Invariants(data))

\* ids 0, 1, 3 are rejected by build although every range is well formed
ValidateRejectsGap ==
  /\ built # NotYet /\ ~built.ok
  /\ Len(data.modules) = 3
  /\ \A i \in 1..3 : data.modules[i].id = IF i = 3 THEN 3 ELSE i - 1
  /\ data.basic_blocks = <<>>

\* C3: build judges the accumulated aggregate as it stands when called: Ok
\* with exactly that aggregate when the invariants hold, a ValidationError
\* otherwise, whatever the intermediate states were.
BuildJudgesFinalState ==
  built # NotYet =>
    /\ built.ok <=> Invariants(data)
    /\ built.ok => built.v = data
    /\ ~built.ok => built.kind = "ValidationError"

\* build succeeded on an aggregate holding blocks and several modules
BuildAccepted ==
  /\ built # NotYet /\ built.ok
  /\ Len(data.modules) >= 2
  /\ \E j \in 1..Len(data.basic_blocks) : data.basic_blocks[j].module_id = 1

\* C4: from_reader returns either an error and no aggregate, or an aggregate
\* with version 2, sequential module ids and blocks in range; nothing is
\* returned before the last stage.
DecodeAllOrNothing ==
  /\ dres # NotYet <=> Decoded
  /\ dpc = "failed" => (~dres.ok /\ DOMAIN dres = {"ok", "kind", "msg", "info"})
  /\ dpc = "done" =>
       /\ dres.ok
       /\ dres.v.header.version = 2
       /\ Invariants(dres.v)

\* a stream decoded to an aggregate with a module and a block
DecodeAccepted ==
  /\ dpc = "done"
  /\ Len(dres.v.modules) >= 1
  /\ Len(dres.v.basic_blocks) >= 1

\* C5: to_writer on an aggregate that fails validate returns a
\* ValidationError and leaves the sink without a single byte.
EncodeRejectsFirst ==
  wres # NotYet =>
    /\ wres.ok <=> Invariants(data)
    /\ ~wres.ok => (wres.kind = "ValidationError" /\ sink = <<>>)
    /\ wres.ok => sink # <<>>

\* to_writer refused an aggregate whose block names a missing module
EncodeRefused ==
  /\ wres # NotYet /\ ~wres.ok
  /\ IdsSequential(data)
  /\ ~BlocksInRange(data)

FirstLine == NextLine(input, 1)

SecondLine == NextLine(input, Len(FirstLine) + 1)

WithoutLf(l) ==
  IF Len(l) > 0 /\ l[Len(l)] = NL THEN SubSeq(l, 1, Len(l) - 1) ELSE l

AfterPrefix(l, prefix) == SubSeq(WithoutLf(l), Len(prefix) + 1, Len(WithoutLf(l)))

HasPrefix(l, prefix) ==
  /\ Len(WithoutLf(l)) >= Len(prefix)
  /\ \A i \in 1..Len(prefix) : l[i] = prefix[i]

\* a token that parse::<u32> refuses
NonNumeric(t) ==
  \/ Len(t) = 0
  \/ t = <<PLUS>>
  \/ \E i \in 1..Len(t) : ~(t[i] \in DIGIT_0..DIGIT_9) /\ ~(i = 1 /\ t[1] = PLUS)

GateVersions == (0..12) \ {SUPPORTED_FILE_VERSION}

VersionStageRan == stage # "none"

\* nothing of the stream after the first line was read or kept
StoppedAtFirstLine ==
  /\ dpc = "failed" /\ stage = "version"
  /\ pos = Len(FirstLine) + 1
  /\ modules = <<>> /\ blocks = <<>> /\ header.flavor = <<>>

\* C7: a first line "DRCOV VERSION: v" with v other than 2 fails with
\* UnsupportedVersion(v), a non-numeric version with InvalidFormat, before
\* any later line is read.
VersionGate ==
  VersionStageRan =>
    /\ \A v \in GateVersions :
         WithoutLf(FirstLine) = VERSION_PREFIX \o FormatUnsigned(v) =>
           /\ StoppedAtFirstLine
           /\ dres.kind = "UnsupportedVersion" /\ dres.info = <<v>>
    /\ (HasPrefix(FirstLine, VERSION_PREFIX)
          /\ NonNumeric(AfterPrefix(FirstLine, VERSION_PREFIX))) =>
           /\ StoppedAtFirstLine
           /\ dres.kind = "InvalidFormat"

\* version 10 was refused with the rest of the stream delivered and unread
VersionRefused ==
  /\ dpc = "failed"
  /\ dres.kind = "UnsupportedVersion" /\ dres.info = <<10>>
  /\ Len(input) >= pos

FlavorStageRan == stage \notin {"none", "version"}

\* C8: the version line and then the flavor line must each start with their
\* exact prefix; end of input or any other text is InvalidFormat; one
\* trailing line feed is removed and the flavor is kept verbatim.
HeaderLineDiscipline ==
  /\ VersionStageRan /\ Utf8(FirstLine) /\ ~HasPrefix(FirstLine, VERSION_PREFIX) =>
       /\ StoppedAtFirstLine
       /\ dres.kind = "InvalidFormat"
  /\ FlavorStageRan /\ Utf8(SecondLine) /\ ~HasPrefix(SecondLine, FLAVOR_PREFIX) =>
       /\ dpc = "failed" /\ stage = "flavor"
       /\ dres.kind = "InvalidFormat"
       /\ pos = Len(FirstLine) + Len(SecondLine) + 1
  /\ FlavorStageRan /\ Utf8(SecondLine) /\ HasPrefix(SecondLine, FLAVOR_PREFIX) =>
       /\ header.flavor = AfterPrefix(SecondLine, FLAVOR_PREFIX)
       /\ ~(dpc = "failed" /\ stage = "flavor")

\* a flavor with inner and outer spaces was kept as written
FlavorVerbatim ==
  /\ FlavorStageRan
  /\ header.flavor = Bytes(" a b ")

Injective(f) == \A i, j \in DOMAIN f : f[i] = f[j] => i = j

Swap(n, a, b) == [i \in 1..n |-> IF i = a THEN b ELSE IF i = b THEN a ELSE i]

\* every reordering of up to 5 columns; for longer lists every exchange of
\* two columns, the rotation and the reversal
Reorderings ==
  [n \in 1..9 |->
     IF n <= 5
     THEN {f \in [1..n -> 1..n] : Injective(f)}
     ELSE {Swap(n, a, b) : a, b \in 1..n}
            \cup {[i \in 1..n |-> (i % n) + 1], [i \in 1..n |-> n + 1 - i]}]

Permuted(seq, f) == [i \in 1..Len(seq) |-> seq[f[i]]]

\* the record stage ran on a readable line
RecordStageRan == stage = "modules" /\ Utf8(line)

\* the record stage of a versioned table ran on a record with one value for
\* each declared column
RecordOfVersionedTable ==
  /\ RecordStageRan
  /\ table.version # Legacy
  /\ Len(RecordValues(Trim(line), table.columns)) = Len(table.columns)

\* r is what the record stage made of its line
SameOutcome(r) ==
  IF dpc # "failed" THEN r.ok /\ r.v = modules[Len(modules)]
  ELSE IF dres.msg = "Non-sequential module ID" THEN r.ok /\ r.v.id = dres.info[2]
  ELSE r = dres

ReorderedOutcomes ==
  LET columns == table.columns
      values  == RecordValues(Trim(line), columns)
  IN  {parse_module_entry(Join(Permuted(values, f), LIST_SEP), Permuted(columns, f)) :
         f \in Reorderings[Len(columns)]}

NoComma(s) == \A i \in 1..Len(s) : s[i] # COMMA

\* C9 (as stated): reordering the columns line and each record's values by
\* the same permutation decodes the same module entry.
ColumnOrderIndependent ==
  RecordOfVersionedTable => \A r \in ReorderedOutcomes : SameOutcome(r)

\* C9 (amended): when the column names are distinct and no value of the
\* record contains a comma, reordering the columns line and the record's
\* values by the same permutation decodes the same module entry.
ColumnOrderIndependentCommaFree ==
  ( /\ RecordOfVersionedTable
    /\ Injective(table.columns)
    /\ \A i \in 1..Len(table.columns) :
         NoComma(RecordValues(Trim(line), table.columns)[i]) )
  => \A r \in ReorderedOutcomes : SameOutcome(r)

\* a record of a table whose columns start with path was decoded
ReorderedRecordDecoded ==
  /\ RecordOfVersionedTable
  /\ dpc # "failed"
  /\ table.columns[1] = KEY_PATH
  /\ modules[Len(modules)].path = Bytes("/bin/x")
  /\ modules[Len(modules)].base = U64(4194304)

CommaCount(s) == Cardinality({i \in 1..Len(s) : s[i] = COMMA})

\* the text after the k-th comma of s
AfterComma(s, k) ==
  IF k = 0 THEN s
  ELSE LET at == CHOOSE i \in 1..Len(s) :
                   s[i] = COMMA /\ CommaCount(SubSeq(s, 1, i)) = k
       IN  SubSeq(s, at + 1, Len(s))

ColumnCountMismatch ==
  /\ dpc = "failed"
  /\ dres.kind = "InvalidModuleTable"
  /\ dres.msg = "Column count mismatch in line"

\* C10 (as stated): a record is split into at most as many fields as there
\* are columns, too few fields is InvalidModuleTable, and the surplus commas
\* end up in the path and in no other field.
SurplusOnlyInPath ==
  RecordStageRan =>
    /\ CommaCount(Trim(line)) < Len(table.columns) - 1 => ColumnCountMismatch
    /\ CommaCount(Trim(line)) >= Len(table.columns) - 1 =>
         /\ ~ColumnCountMismatch
         /\ \A i \in 1..Len(table.columns) :
              table.columns[i] # KEY_PATH =>
                NoComma(RecordValues(Trim(line), table.columns)[i])

\* C10 (amended): a record is split into at most as many fields as there are
\* columns, too few fields is InvalidModuleTable, and the surplus commas end
\* up in the last declared column and in no other; when that column is the
\* path, the path is decoded untruncated.
SurplusOnlyInLastColumn ==
  RecordStageRan =>
    LET n == Len(table.columns)
        t == Trim(line)
    IN  /\ CommaCount(t) < n - 1 => ColumnCountMismatch
        /\ CommaCount(t) >= n - 1 =>
             /\ ~ColumnCountMismatch
             /\ Len(RecordValues(t, table.columns)) = n
             /\ \A i \in 1..(n - 1) : NoComma(RecordValues(t, table.columns)[i])
             /\ (dpc # "failed" /\ table.columns[n] = KEY_PATH /\ Injective(table.columns)) =>
                  modules[Len(modules)].path = Trim(AfterComma(t, n - 1))

\* a legacy record whose path holds a comma was decoded with the whole path
CommaPathDecoded ==
  /\ RecordStageRan
  /\ dpc # "failed"
  /\ table.version = Legacy
  /\ modules[Len(modules)].path = Bytes("/lib/a,b")

RECURSIVE LineStart(_, _)
\* the position where the k-th line of a byte stream starts
LineStart(bytes, k) ==
  IF k = 1 THEN 1
  ELSE LET p == LineStart(bytes, k - 1) IN p + Len(NextLine(bytes, p))

\* the k-th line written to the sink, without its line feed
SinkLine(k) == WithoutLf(NextLine(sink, LineStart(sink, k)))

Written == wres # NotYet /\ wres.ok

AnyWindowsField(d) ==
  \E i \in 1..Len(d.modules) : d.modules[i].checksum.some \/ d.modules[i].timestamp.some

\* the names on the Columns line of the sink
SinkColumns == MapTrim(Split(AfterPrefix(SinkLine(4), COLUMNS_PREFIX), COMMA))

Names(seq) == {seq[i] : i \in 1..Len(seq)}

\* the record of module m under version V with both windows columns filled
WindowsRecord(m, V) ==
  Join(<<FormatUnsigned(m.id)>>
       \o (IF V >= V3
           THEN <<IF m.containing_id.some THEN FormatSigned(m.containing_id.v)
                  ELSE MINUS_ONE_TEXT>>
           ELSE <<>>)
       \o <<FormatHexPadded(m.base), FormatHexPadded(m.end), FormatHexPadded(m.entry)>>
       \o (IF V >= V4
           THEN <<FormatHex(IF m.offset.some THEN m.offset.v ELSE ZERO64)>> ELSE <<>>)
       \o <<FormatHexPadded(IF m.checksum.some THEN m.checksum.v ELSE ZERO32),
            FormatHexPadded(IF m.timestamp.some THEN m.timestamp.v ELSE ZERO32),
            m.path>>,
       LIST_SEP)

\* C11: under V2, V3 or V4 the Columns line names checksum and timestamp
\* exactly when some module has one of them, and then every module line
\* carries both columns, with 0 for a value the module lacks.
SetWideWindowsFields ==
  (Written /\ data.module_version # Legacy) =>
    /\ KEY_CHECKSUM \in Names(SinkColumns) <=> AnyWindowsField(data)
    /\ KEY_TIMESTAMP \in Names(SinkColumns) <=> AnyWindowsField(data)
    /\ AnyWindowsField(data) =>
         \A i \in 1..Len(data.modules) :
           SinkLine(4 + i) = WindowsRecord(data.modules[i], data.module_version)

\* a versioned table was written in which one module has only a checksum
WindowsColumnsWritten ==
  /\ Written
  /\ data.module_version = V3
  /\ Len(data.modules) = 1
  /\ data.modules[1].checksum.some /\ ~data.modules[1].timestamp.some
  /\ SinkLine(5) = WindowsRecord(data.modules[1], V3)

\* the number of lines from_reader has read once the BB header is read
LinesBeforePayload == 3 + (IF table.version = Legacy THEN 0 ELSE 1) + table.count + 1

\* the bytes of the stream after the BB header line
PayloadLen == Len(input) - LineStart(input, LinesBeforePayload + 1) + 1

\* the BB header line read declares n blocks
Declares(n) == WithoutLf(line) = BB_TABLE_PREFIX \o FormatUnsigned(n) \o BBS_SUFFIX

PayloadStageRan == stage \in {"bb_data", "validate"} /\ Len(blocks) + bbcount > 0

\* C12: when the BB Table header declares N > 0 blocks and fewer than N*8
\* bytes follow it, from_reader fails with an Io error, and no aggregate
\* with fewer than N blocks is ever returned.
TruncationIsFatal ==
  \A n \in 1..(MaxBlocks + 1) :
    (PayloadStageRan /\ Declares(n)) =>
      /\ PayloadLen < n * 8 =>
           (dpc = "failed" /\ stage = "bb_data" /\ dres.kind = "Io")
      /\ dpc = "done" => Len(dres.v.basic_blocks) = n

\* two blocks were declared, one whole record arrived, and the parse failed
TruncatedPayloadRefused ==
  /\ PayloadStageRan /\ Declares(2)
  /\ PayloadLen = 8
  /\ dpc = "failed" /\ dres.kind = "Io"

BbHeaderStageRan == stage \in {"bb_table", "bb_data", "validate"}

\* C13: when the stream ends before any BB Table line, or the line declares
\* 0 blocks, decode succeeds with no blocks and reads no byte after that
\* line; with a module count of 0 the aggregate has no modules either.
EmptyBlockTable ==
  (BbHeaderStageRan /\ (line = <<>> \/ Declares(0))) =>
    /\ stage # "bb_data"
    /\ dpc \in {"validate", "done"}
    /\ blocks = <<>>
    /\ pos = LineStart(input, LinesBeforePayload + 1)
    /\ dpc = "done" =>
         /\ dres.ok
         /\ dres.v.basic_blocks = <<>>
         /\ Len(dres.v.modules) = table.count

\* a stream that ends after "Module Table: 0" decoded to an empty aggregate
NoBlockTableDecoded ==
  /\ dpc = "done" /\ dres.ok
  /\ line = <<>> /\ closed
  /\ dres.v.modules = <<>> /\ dres.v.basic_blocks = <<>>

\* x < y on 64-bit values, limb by limb from the most significant
Below(x, y) ==
  \/ x[4] < y[4]
  \/ x[4] = y[4] /\ x[3] < y[3]
  \/ x[4] = y[4] /\ x[3] = y[3] /\ x[2] < y[2]
  \/ x[4] = y[4] /\ x[3] = y[3] /\ x[2] = y[2] /\ x[1] < y[1]

\* base <= addr < end
InRange(m, addr) == ~Below(addr, m.base) /\ Below(addr, m.end)

Asked(op) == answer.op = op

\* C14: find_module_by_address(addr) returns the module of smallest index
\* whose range [base, end) holds addr, and nothing when no range holds it;
\* zero-sized and inverted modules hold no address.
FirstMatchByAddress ==
  Asked("find_module_by_address") =>
    LET hits == {i \in 1..Len(data.modules) : InRange(data.modules[i], answer.addr)}
    IN  /\ hits = {} => answer.result = None
        /\ hits # {} =>
             /\ answer.result.some
             /\ \E i \in hits : /\ \A k \in hits : i <= k
                                /\ answer.result.v = data.modules[i]
        /\ \A i \in 1..Len(data.modules) :
             ~Below(data.modules[i].base, data.modules[i].end) => i \notin hits

\* two modules with the same range: an address in both resolves to the first
OverlapResolvesToFirst ==
  /\ Asked("find_module_by_address")
  /\ Len(data.modules) >= 2
  /\ InRange(data.modules[1], answer.addr) /\ InRange(data.modules[2], answer.addr)
  /\ answer.result = Some(data.modules[1])
  /\ data.modules[1] # data.modules[2]

\* C15: find_module(id) returns the module at index id exactly when id is
\* below the module count and that module's stored id is id, and nothing
\* otherwise; on an aggregate that satisfies the invariants it answers every
\* id below the count, and a returned module always has the id asked for.
FindModuleById ==
  Asked("find_module") =>
    LET id    == answer.id
        found == id < Len(data.modules) /\ data.modules[id + 1].id = id
    IN  /\ answer.result.some <=> found
        /\ found => answer.result.v = data.modules[id + 1]
        /\ answer.result.some => answer.result.v.id = id
        /\ Invariants(data) => (answer.result.some <=> id < Len(data.modules))

\* ids 0, 1, 3: the module at index 2 is not returned for id 2
StoredIdFiltered ==
  /\ Asked("find_module")
  /\ answer.id = 2
  /\ Len(data.modules) = 3 /\ data.modules[3].id = 3
  /\ answer.result = None

RECURSIVE SumOver(_, _)
\* the sum of f over the finite set S of its domain
SumOver(f, S) ==
  IF S = {} THEN 0
  ELSE LET x == CHOOSE y \in S : TRUE IN f[x] + SumOver(f, S \ {x})

BlocksOfModule(id) == {j \in 1..Len(data.basic_blocks) : data.basic_blocks[j].module_id = id}

\* C16: get_coverage_stats maps exactly the module ids that occur in the
\* blocks, each to the number of blocks that carry it; a module no block
\* names is absent, and the counts add up to the number of blocks.
StatsCountBlocks ==
  Asked("get_coverage_stats") =>
    LET stats == answer.result
    IN  /\ \A id \in 0..(MaxModules + 1) :
             id \in DOMAIN stats <=> BlocksOfModule(id) # {}
        /\ \A id \in DOMAIN stats :
             stats[id] = Cardinality(BlocksOfModule(id)) /\ stats[id] >= 1
        /\ SumOver(stats, DOMAIN stats) = Len(data.basic_blocks)

\* two blocks of module 0, and a second module that no block names
UncoveredModuleAbsent ==
  /\ Asked("get_coverage_stats")
  /\ Len(data.modules) = 2
  /\ DOMAIN answer.result = {0}
  /\ answer.result[0] = 2

\* (a + b) mod 2^64, limb by limb
Sum64(a, b) ==
  LET s1 == a[1] + b[1]
      s2 == a[2] + b[2] + (s1 \div LimbBase)
      s3 == a[3] + b[3] + (s2 \div LimbBase)
      s4 == a[4] + b[4] + (s3 \div LimbBase)
  IN  <<s1 % LimbBase, s2 % LimbBase, s3 % LimbBase, s4 % LimbBase>>

\* start as u64
Widen(w) == <<w[1], w[2], 0, 0>>

\* a + b exceeds 2^64 - 1
Overflows(a, b) == Below(Sum64(a, b), a)

\* C17: absolute_address returns (base + start) mod 2^64 for every base and
\* start, and never aborts, also when base + start exceeds 2^64 - 1.
AbsoluteAddressWraps ==
  Asked("absolute_address") =>
    /\ ~answer.result.panic
    /\ answer.result.v = Sum64(data.modules[answer.module].base,
                               Widen(data.basic_blocks[answer.block].start))

\* base 2^64 - 1 and start 0x1000 gave the wrapped address 0xfff
WrappedAddressReturned ==
  /\ Asked("absolute_address")
  /\ Overflows(data.modules[answer.module].base,
               Widen(data.basic_blocks[answer.block].start))
  /\ ~answer.result.panic
  /\ answer.result.v = U64(4095)

\* C18: size() is end - base when end >= base and 0 when end < base, for
\* all 64-bit base and end; it is never a value wrapped mod 2^64.
SaturatingSize ==
  Asked("size") =>
    LET m == data.modules[answer.module]
    IN  IF Below(m.end, m.base)
        THEN answer.result = ZERO64
        ELSE /\ Sum64(m.base, answer.result) = m.end
             /\ ~Overflows(m.base, answer.result)

\* base 2^64 - 1 and end 16: the size is 0
InvertedRangeSizeZero ==
  /\ Asked("size")
  /\ Below(data.modules[answer.module].end, data.modules[answer.module].base)
  /\ answer.result = ZERO64

\* the optional fields of m that a table tagged V cannot carry are absent
UnsupportedAbsent(m, V) ==
  /\ V = Legacy => (~m.checksum.some /\ ~m.timestamp.some)
  /\ V \in {Legacy, V2} => ~m.containing_id.some
  /\ V \in {Legacy, V2, V3} => ~m.offset.some

StageErrors(st) ==
  IF st = "version" THEN {"InvalidFormat", "UnsupportedVersion", "Io"}
  ELSE IF st = "flavor" THEN {"InvalidFormat", "Io"}
  ELSE IF st \in {"module_table", "columns", "modules"} THEN {"InvalidModuleTable", "Io"}
  ELSE IF st = "bb_table" THEN {"InvalidBbTable", "Io"}
  ELSE IF st = "bb_data" THEN {"Io"}
  ELSE {"ValidationError"}

\* the step consumed exactly the next line of the stream
LineConsumed ==
  /\ line' = NextLine(input, pos)
  /\ pos' = pos + Len(line')

\* the stage st ran in this step and ended the parse or moved on to one of next
StageRuns(st, next) ==
  /\ dpc = st /\ stage' = st
  /\ dpc' \in next \cup {"failed"}
  /\ dpc' = "failed" => (~dres'.ok /\ dres'.kind \in StageErrors(st))
  /\ dpc' \notin {"failed", "done"} => dres' = NotYet

VersionedHeader(l) == HasPrefix(Trim(l), MODULE_TABLE_PREFIX \o VERSION_WORD)

\* one step of from_reader, in the order of the file
StageStep ==
  \/ UNCHANGED dvars
  \/ StageRuns("version", {"flavor"}) /\ LineConsumed
  \/ StageRuns("flavor", {"module_table"}) /\ LineConsumed
  \/ /\ StageRuns("module_table", {"columns", "modules", "bb_table"}) /\ LineConsumed
     /\ dpc' = "columns" => VersionedHeader(line')
     /\ dpc' \in {"modules", "bb_table"} => ~VersionedHeader(line')
     /\ dpc' = "modules" => table'.count > 0
     /\ dpc' = "bb_table" => table'.count = 0
  \/ /\ StageRuns("columns", {"modules", "bb_table"}) /\ LineConsumed
     /\ table.version # Legacy
     /\ dpc' = "modules" <=> (dpc' # "failed" /\ table'.count > 0)
  \/ /\ StageRuns("modules", {"modules", "bb_table"}) /\ LineConsumed
     /\ Len(modules) < table.count
     /\ dpc' # "failed" => Len(modules') = Len(modules) + 1
     /\ dpc' = "bb_table" => Len(modules') = table.count
     /\ dpc' = "modules" => Len(modules') < table.count
  \/ /\ StageRuns("bb_table", {"bb_data", "validate"}) /\ LineConsumed
     /\ Len(modules) = table.count
     /\ dpc' = "bb_data" <=> (dpc' # "failed" /\ bbcount' > 0)
  \/ /\ StageRuns("bb_data", {"validate"})
     /\ bbcount > 0
     /\ line' = line
     /\ dpc' = "validate" =>
          (pos' = pos + bbcount * BB_ENTRY_SIZE /\ Len(blocks') = bbcount)
  \/ /\ StageRuns("validate", {"done"})
     /\ pos' = pos
     /\ Len(modules) = table.count /\ Len(blocks) = bbcount
     /\ header.version = SUPPORTED_FILE_VERSION
     /\ dpc' = "done" => (dres'.ok /\ dres'.v = Assembled)

\* C20: from_reader reads the version line, the flavor line, the module
\* table header, the Columns line exactly when the header is versioned,
\* exactly count module records, the BB table header, and the payload only
\* after a header with a count above 0; no stage is revisited or skipped, a
\* failing stage ends the parse with its own error, and an aggregate is
\* returned only after every stage succeeded.
StageOrdering == [][StageStep]_vars

\* one module declared, two module lines sent: the second was read as the
\* BB table header
ExtraRecordReadAsBbHeader ==
  /\ dpc = "failed" /\ stage = "bb_table"
  /\ dres.kind = "InvalidBbTable"
  /\ table.count = 1 /\ Len(modules) = 1
  /\ line = Bytes("1, 0x600000, 0x700000, 0x601000, /lib/a,b\n")

\* the record stage ran on a line with one value for each column
WellFormedRecord ==
  /\ RecordStageRan
  /\ Len(RecordValues(Trim(line), table.columns)) = Len(table.columns)

\* the value the record line holds for the column named key
RecordField(key) == Field(table.columns, RecordValues(Trim(line), table.columns), key)

\* the id the record line carries, none when it is missing or not a number
RecordId == IF RecordField(KEY_ID).some THEN ParseUnsigned(RecordField(KEY_ID).v) ELSE None

\* the lines from_reader has read when the record stage ran last
LinesThroughRecord ==
  3 + (IF table.version = Legacy THEN 0 ELSE 1) + Len(modules)
    + (IF dpc = "failed" THEN 1 ELSE 0)

\* C21: the first module record whose id differs from its zero-based
\* position fails with InvalidModuleTable at once, nothing after that line
\* being read; the records kept are always numbered 0, 1, 2, ...; and the
\* only ValidationError from_reader returns is a block whose module_id is
\* not below the module count.
FailFastIds ==
  /\ (WellFormedRecord /\ RecordId.some) =>
       IF dpc = "failed"
       THEN /\ RecordId.v # Len(modules)
            /\ dres.kind = "InvalidModuleTable"
            /\ dres.info = <<Len(modules), RecordId.v>>
            /\ pos = LineStart(input, LinesThroughRecord + 1)
            /\ bbcount = 0 /\ blocks = <<>>
       ELSE /\ RecordId.v = Len(modules) - 1
            /\ modules[Len(modules)].id = RecordId.v
  /\ \A i \in 1..Len(modules) : modules[i].id = i - 1
  /\ (~dres.ok /\ dres.kind = "ValidationError") =>
       /\ stage = "validate"
       /\ dres.msg = "Basic block references invalid module ID"
       /\ \E j \in 1..Len(blocks) :
            blocks[j].module_id >= Len(modules) /\ dres.info = <<blocks[j].module_id>>

\* ids 0, 0, 2: the second record was refused, the third record and the BB
\* table line were left unread
DuplicateIdRefused ==
  /\ dpc = "failed" /\ stage = "modules"
  /\ dres.kind = "InvalidModuleTable" /\ dres.info = <<1, 0>>
  /\ Len(modules) = 1
  /\ SubSeq(input, pos, Len(input)) = Bytes("2, 0x5, 0x6, 0x0, /c\nBB Table: 0 bbs\n")

\* the record holds, under one of the column names, a hexadecimal number of
\* at most 64 bits (the 0x prefix is optional)
Supplied(keys) ==
  \E k \in keys : RecordField(k).some /\ AndThenHex(RecordField(k), 4).some

RecordRefused == dpc = "failed" /\ dres.kind = "InvalidModuleTable"

\* C22: a module record whose id, base (or start), end or entry is missing
\* from the declared columns, or holds a value that is not a number of its
\* format, fails with InvalidModuleTable; no such record decodes to a
\* module with the field defaulted.
RequiredFieldsEnforced ==
  ( /\ RecordStageRan
    /\ \/ ~WellFormedRecord
       \/ ~RecordId.some
       \/ ~Supplied({KEY_BASE, KEY_START})
       \/ ~Supplied({KEY_END})
       \/ ~Supplied({KEY_ENTRY}) )
  => RecordRefused

\* the record "0, /p" under the columns id, path was decoded with base, end
\* and entry 0
RecordWithoutBaseDecoded ==
  /\ WellFormedRecord /\ dpc # "failed"
  /\ table.columns = <<KEY_ID, KEY_PATH>>
  /\ modules[Len(modules)] = [DefaultModule EXCEPT !.path = Bytes("/p")]

ThirdLine == NextLine(input, LineStart(input, 3))

FourthLine == NextLine(input, LineStart(input, 4))

ModuleTableStageRan == stage \notin {"none", "version", "flavor"}

ColumnsStageRan == stage \notin {"none", "version", "flavor", "module_table"}

\* a decimal token that parse::<u32> and parse::<usize> accept
Numeric(t) == ~NonNumeric(t) /\ ParseUnsigned(t).some

\* "Module Table: <count>", surrounding white space aside
LegacyForm(l) ==
  LET t == Trim(l)
  IN  /\ HasPrefix(t, MODULE_TABLE_PREFIX)
      /\ ~HasPrefix(t, MODULE_TABLE_PREFIX \o VERSION_WORD)
      /\ Numeric(AfterPrefix(t, MODULE_TABLE_PREFIX))

\* the two parts of the text after "Module Table: version "
VersionPart(l) ==
  LET rest == AfterPrefix(Trim(l), MODULE_TABLE_PREFIX \o VERSION_WORD)
      k    == Min(SepPositions(rest, COMMA))
  IN  [version |-> Trim(SubSeq(rest, 1, k - 1)),
       count |-> Trim(SubSeq(rest, k + 1, Len(rest)))]

\* "Module Table: version <v>, count <count>" with v one of 2, 3, 4
VersionedForm(l) ==
  /\ HasPrefix(Trim(l), MODULE_TABLE_PREFIX \o VERSION_WORD)
  /\ CommaCount(AfterPrefix(Trim(l), MODULE_TABLE_PREFIX \o VERSION_WORD)) = 1
  /\ Numeric(VersionPart(l).version)
  /\ DecValue(StripLeadingZeros(TrimStartMatches(VersionPart(l).version, <<PLUS>>)))
       \in {2, 3, 4}
  /\ HasPrefix(VersionPart(l).count, COUNT_WORD)
  /\ Numeric(AfterPrefix(VersionPart(l).count, COUNT_WORD))

\* C23: the module-table header is accepted only in the legacy form (schema
\* Legacy, the implicit columns id, base, end, entry, path, no Columns line)
\* or in the versioned form with version 2, 3 or 4 followed by a line that
\* starts with "Columns: "; any other header line, a missing one, and a
\* versioned header without a Columns line fail with InvalidModuleTable.
\* Lines are compared without their surrounding white space.
ModuleTableGrammar ==
  (ModuleTableStageRan /\ Utf8(ThirdLine)) =>
    LET refused == dpc = "failed" /\ stage = "module_table"
    IN  /\ refused <=> ~(LegacyForm(ThirdLine) \/ VersionedForm(ThirdLine))
        /\ refused => dres.kind = "InvalidModuleTable"
        /\ LegacyForm(ThirdLine) =>
             /\ table.version = Legacy
             /\ table.columns = LegacyColumns
             /\ stage # "columns"
        /\ VersionedForm(ThirdLine) =>
             /\ table.version \in {V2, V3, V4}
             /\ FormatUnsigned(table.version)
                  = StripLeadingZeros(TrimStartMatches(VersionPart(ThirdLine).version, <<PLUS>>))
             /\ (ColumnsStageRan /\ Utf8(FourthLine)) =>
                  /\ (dpc = "failed" /\ stage = "columns")
                       <=> ~HasPrefix(Trim(FourthLine), COLUMNS_PREFIX)
                  /\ (dpc = "failed" /\ stage = "columns")
                       => dres.kind = "InvalidModuleTable"

\* a version 4 header followed by a module record instead of a Columns line
ColumnsLineMissing ==
  /\ dpc = "failed" /\ stage = "columns"
  /\ dres.kind = "InvalidModuleTable"
  /\ table.version = V4
  /\ HasPrefix(FourthLine, Bytes("0, -1, 0x400000"))

\* a zero as a hexadecimal column holds it: "0", "0x0", "0x00000000", ...
ZeroHexText(v) ==
  LET ds == IF StartsWith(v, HEX_PREFIX) THEN SubSeq(v, 3, Len(v)) ELSE v
  IN  Len(ds) > 0 /\ \A i \in 1..Len(ds) : ds[i] = DIGIT_0

Declared(key) == key \in Names(table.columns)

\* the record stage ran last and pushed a module
RecordDecoded == WellFormedRecord /\ dpc # "failed"

\* C24: a record whose columns lack containing_id, offset, checksum or
\* timestamp decodes with that field absent, and a record that holds 0 in
\* such a column decodes with the field present and equal to 0.
AbsentVersusZero ==
  RecordDecoded =>
    LET m == modules[Len(modules)]
    IN  /\ ~Declared(KEY_CONTAINING_ID) => m.containing_id = None
        /\ ~Declared(KEY_OFFSET) => m.offset = None
        /\ ~Declared(KEY_CHECKSUM) => m.checksum = None
        /\ ~Declared(KEY_TIMESTAMP) => m.timestamp = None
        /\ (Declared(KEY_CONTAINING_ID) /\ RecordField(KEY_CONTAINING_ID).v = ZERO_TEXT)
             => m.containing_id = Some(0)
        /\ (Declared(KEY_OFFSET) /\ ZeroHexText(RecordField(KEY_OFFSET).v))
             => m.offset = Some(ZERO64)
        /\ (Declared(KEY_CHECKSUM) /\ ZeroHexText(RecordField(KEY_CHECKSUM).v))
             => m.checksum = Some(ZERO32)
        /\ (Declared(KEY_TIMESTAMP) /\ ZeroHexText(RecordField(KEY_TIMESTAMP).v))
             => m.timestamp = Some(ZERO32)

\* a version 4 table read back: the first module with offset, checksum and
\* timestamp 0, the second with containing_id 0
ZeroFieldsDecoded ==
  /\ RecordDecoded
  /\ table.version = V4 /\ Len(modules) = 2
  /\ modules[1].offset = Some(ZERO64)
  /\ modules[1].checksum = Some(ZERO32) /\ modules[1].timestamp = Some(ZERO32)
  /\ RecordField(KEY_CONTAINING_ID).v = ZERO_TEXT
  /\ modules[2].containing_id = Some(0)

\* to_writer has returned Ok and the sink is as it left it (the reader, which
\* never touches the sink, has not been opened yet)
JustWritten == Written /\ dpc = "idle"

\* the column list a table of version V is to declare
ExpectedColumns(V, windows) ==
  <<KEY_ID>>
  \o (IF V \in {V3, V4} THEN <<KEY_CONTAINING_ID>> ELSE <<>>)
  \o (IF V \in {V3, V4} THEN <<KEY_START>> ELSE <<KEY_BASE>>)
  \o <<KEY_END, KEY_ENTRY>>
  \o (IF V = V4 THEN <<KEY_OFFSET>> ELSE <<>>)
  \o (IF windows THEN <<KEY_CHECKSUM, KEY_TIMESTAMP>> ELSE <<>>)
  \o <<KEY_PATH>>

\* the text lines of the sink: header, flavor, module table, BB header
SinkTextLines ==
  3 + (IF data.module_version = Legacy THEN 0 ELSE 1) + Len(data.modules) + 1

\* C25: for a versioned schema the Columns line is id, containing_id (V3,
\* V4), start (V3, V4) or base (V2), end, entry, offset (V4), checksum and
\* timestamp when some module has either, and path last; for Legacy neither
\* a Columns line nor a version token is written.
OutputColumnList ==
  JustWritten =>
    IF data.module_version = Legacy
    THEN /\ SinkLine(3) = MODULE_TABLE_PREFIX \o FormatUnsigned(Len(data.modules))
         /\ \A k \in 1..SinkTextLines : ~HasPrefix(SinkLine(k), COLUMNS_PREFIX)
    ELSE /\ SinkLine(3) = MODULE_TABLE_PREFIX \o VERSION_WORD
                            \o FormatUnsigned(data.module_version) \o COUNT_SEP
                            \o FormatUnsigned(Len(data.modules))
         /\ SinkLine(4) = COLUMNS_PREFIX
                            \o Join(ExpectedColumns(data.module_version,
                                                    AnyWindowsField(data)), LIST_SEP)
         /\ \A k \in 5..SinkTextLines : ~HasPrefix(SinkLine(k), COLUMNS_PREFIX)

\* a version 4 table with a checksum was written with all nine columns
AllColumnsWritten ==
  /\ JustWritten
  /\ data.module_version = V4
  /\ AnyWindowsField(data)
  /\ SinkLine(4) = COLUMNS_PREFIX \o COLUMNS_V4_WIN

\* what the sink holds after the BB header line
SinkPayload == SubSeq(sink, LineStart(sink, SinkTextLines + 1), Len(sink))

\* the eight bytes of a block on the wire: start in 4 bytes, size in 2,
\* module_id in 2, each least significant byte first (start is kept as its
\* low and high 16 bits)
WireRecord(b) ==
  << b.start[1] % 256, b.start[1] \div 256, b.start[2] % 256, b.start[2] \div 256,
     b.size % 256, b.size \div 256, b.module_id % 256, b.module_id \div 256 >>

\* blocks at the ends of the three value ranges
ExtremeBlocks ==
  { [start |-> <<65535, 65535>>, size |-> 65535, module_id |-> 65535],
    [start |-> <<0, 0>>, size |-> 0, module_id |-> 0],
    [start |-> <<0, 32768>>, size |-> 256, module_id |-> 255],
    [start |-> <<258, 772>>, size |-> 1286, module_id |-> 1800] }

\* the encoding of one block and its decoding, at the ends of the ranges
ExtremesRoundTrip ==
  \A b \in ExtremeBlocks :
    /\ BlockBytes(b) = WireRecord(b)
    /\ BlocksOf(BlockBytes(b)) = <<b>>

\* C26: after the BB header line the encoder writes exactly 8 bytes for
\* each block and nothing else, block i at bytes 8i..8i+7 as start (4
\* bytes), size (2) and module_id (2), little-endian; the decoder turns the
\* payload back into the same blocks in the same order.
BlockWireLayout ==
  /\ ExtremesRoundTrip
  /\ JustWritten =>
       /\ Len(SinkPayload) = 8 * Len(data.basic_blocks)
       /\ \A j \in 1..Len(data.basic_blocks) :
            SubSeq(SinkPayload, 8 * (j - 1) + 1, 8 * j) = WireRecord(data.basic_blocks[j])
  /\ (Written /\ stage \in {"bb_data", "validate"}) =>
       /\ ~(dpc = "failed" /\ stage = "bb_data")
       /\ blocks = data.basic_blocks
       /\ pos = Len(input) + 1

\* two blocks, one of them with start 2^32 - 1 and size 2^16 - 1, came back
\* as written
BlocksReadBack ==
  /\ Written /\ dpc = "done"
  /\ Len(data.basic_blocks) = 2
  /\ dres.v.basic_blocks = data.basic_blocks
  /\ \E j \in 1..2 : /\ data.basic_blocks[j].start = <<65535, 65535>>
                      /\ data.basic_blocks[j].size = 65535

\* the BB header line of the sink, without its line feed
SinkBbHeader == SinkLine(SinkTextLines)

\* C27: the encoder writes the basic-block header as "BB Table: ", the
\* decimal block count and " bbs", with a single space between the colon
\* and the count.
BbHeaderText ==
  JustWritten =>
    SinkBbHeader = BB_TABLE_PREFIX \o FormatUnsigned(Len(data.basic_blocks)) \o BBS_SUFFIX

\* two blocks were written under a header with two spaces before the count
BbHeaderWritten ==
  /\ JustWritten
  /\ Len(data.basic_blocks) = 2
  /\ SinkBbHeader = BB_TABLE_PREFIX \o SPACE \o FormatUnsigned(2) \o BBS_SUFFIX

\* the module add_module(path, base, end) is to append as the n-th (from 0)
AutoModule(n, a) ==
  [id |-> n, base |-> a.base, end |-> a.end, entry |-> ZERO64, path |-> a.path,
   containing_id |-> None, offset |-> None, checksum |-> None, timestamp |-> None]

\* m has the shape add_module gives a module (no caller of add_full_module
\* passes such a module)
FromAddModule(m) == m \notin FullModules /\ \E a \in ModuleArgs : m = AutoModule(m.id, a)

\* a step that appends a module keeps the earlier modules and appends
\* either an add_module module numbered by the count before the call or a
\* caller's module as passed
AppendStep ==
  Len(data'.modules) # Len(data.modules) =>
    /\ Len(data'.modules) = Len(data.modules) + 1
    /\ SubSeq(data'.modules, 1, Len(data.modules)) = data.modules
    /\ \/ \E a \in ModuleArgs :
            data'.modules[Len(data'.modules)] = AutoModule(Len(data.modules), a)
       \/ data'.modules[Len(data'.modules)] \in FullModules

\* build refuses a module whose id is not its position, and modules that
\* all come from add_module are numbered by position
IdsJudged ==
  /\ (\A i \in 1..Len(data.modules) : FromAddModule(data.modules[i])) => IdsSequential(data)
  /\ built # NotYet =>
       /\ (\E i \in 1..Len(data.modules) : data.modules[i].id # i - 1) =>
            (~built.ok /\ built.kind = "ValidationError"
               /\ built.msg = "Non-sequential module ID")
       /\ (\A i \in 1..Len(data.modules) : FromAddModule(data.modules[i])) =>
            (built.ok \/ built.msg # "Non-sequential module ID")

\* C28: add_module gives the new module the number of modules appended so
\* far (by either method) as its id, entry 0 and no optional field;
\* add_full_module stores the caller's module unchanged; build fails
\* whenever a module's id differs from its position, and never fails the
\* sequential-id check when every module came from add_module.
BuilderIdAssignment == []IdsJudged /\ [][AppendStep]_vars

\* add_module, add_full_module with id 1, add_module: build accepted ids 0, 1, 2
MixedBuilderAccepted ==
  /\ built # NotYet /\ built.ok
  /\ Len(data.modules) = 3
  /\ FromAddModule(data.modules[1]) /\ data.modules[1].id = 0
  /\ data.modules[2] \in FullModules /\ data.modules[2].id = 1
  /\ FromAddModule(data.modules[3]) /\ data.modules[3].id = 2

\* no line break in the flavor or in a path
FreeOfLineBreaks(d) ==
  /\ \A i \in 1..Len(d.header.flavor) : d.header.flavor[i] \notin {10, 13}
  /\ \A k \in 1..Len(d.modules) :
       \A i \in 1..Len(d.modules[k].path) : d.modules[k].path[i] \notin {10, 13}

\* C29: what to_writer writes for an aggregate that passes validate, has
\* header version 2 and no line break in flavor or paths is decoded by
\* from_reader, under every schema version and every mix of optional
\* fields, to an aggregate with as many modules and blocks.
EncodedDecodable ==
  ( /\ Decoded /\ Written
    /\ data.header.version = SUPPORTED_FILE_VERSION
    /\ FreeOfLineBreaks(data) )
  => /\ dres.ok
     /\ Len(dres.v.modules) = Len(data.modules)
     /\ Len(dres.v.basic_blocks) = Len(data.basic_blocks)

\* a version 4 table of two modules with checksums, and a block, was read
\* back with the same counts
SameCountsReadBack ==
  /\ Decoded /\ Written /\ dres.ok
  /\ data.module_version = V4
  /\ Len(dres.v.modules) = 2 /\ Len(data.modules) = 2
  /\ Len(dres.v.basic_blocks) = 1 /\ Len(data.basic_blocks) = 1

====
